---- MODULE Spec2Model ----
(***************************************************************************)
(* Threshold Schnorr signatures over Shamir shares (crate shamy).          *)
(*                                                                         *)
(* The scalar field of the curve is modelled as the integers modulo the    *)
(* prime Q, and the curve group, which is cyclic of the same prime order,  *)
(* by the discrete logarithms of its points: the point k*G is the number   *)
(* k, point addition is addition modulo Q and P * s is multiplication      *)
(* modulo Q.  IDENTITY is 0 and GENERATOR is 1.                            *)
(***************************************************************************)
EXTENDS Integers, Sequences, FiniteSets, TLC

VARIABLES
    pc,             \* the step the caller of the library has reached
    poly,           \* shamir_keygen: the polynomial (a local of the call)
    threshold,      \* shamir_keygen: its argument t
    num_shares,     \* shamir_keygen: its argument n
    keygen_output,  \* KeygenOutput
    participants,   \* participants made by generate_participant, no dealer
    signers,        \* the participants of the signing session
    ids,            \* the id list handed to aggregate_nonce
    msg,            \* the message of the session
    nonce_pairs,    \* per signer [id, r_i, R_i]
    R,              \* the aggregated nonce
    c,              \* the challenge
    partials,       \* the partial signatures
    signature,      \* the finalized signature
    vmsg,           \* the message handed to verify
    verdict,        \* the result of verify
    public_keys,    \* the argument of aggregate_public_key
    rev_public_key, \* the result of aggregate_public_key
    vss,            \* the share check: its step, inputs and result
    lag,            \* the interpolation: its step, inputs and result
    hex,            \* a call of a util.rs conversion: its input and result
    cli,            \* a run of the command line program: command and outcome
    prev,           \* the signature of an earlier session of the same group
    reuse,          \* calls of partial_sign by one participant
    sessions        \* the signing sessions that run side by side

keyVars == <<poly, threshold, num_shares, keygen_output, participants>>
sessionVars == <<signers, ids, msg, nonce_pairs, R, c, partials, signature,
                 vmsg, verdict>>
aggVars == <<public_keys, rev_public_key>>
ioVars == <<hex, cli, prev, reuse, sessions>>
vars == <<pc, keyVars, sessionVars, aggVars, vss, lag, ioVars>>

\* ------------------------------------------------------------------ bounds

\* Order of the scalar field and of the group (a prime).
Q == 5
\* Number of values of a digest (a power of two above Q): a digest that is
\* not below Q is not the canonical encoding of a scalar.
HashMod == 8
\* Largest group size n of a key generation.
MaxN == 3
\* Largest threshold t of a key generation.
MaxT == 2

Scalars == 0 .. (Q - 1)
Points == 0 .. (Q - 1)
\* Messages are byte strings.
Msgs == {<<0>>, <<0, 1>>}

\* Longest text handed to a conversion from hex.
MaxHexLen == 6
\* Most calls of partial_sign made for one participant.
MaxCalls == 2
\* Largest nonce drawn in the sessions that run side by side.
MaxNonce == 1
\* The characters of those texts: hex digits and one character that is none.
TextChars == {"0", "1", "2", "3", "4", "g"}
Texts == UNION {[1 .. l -> TextChars] : l \in 0 .. MaxHexLen}

\* ------------------------------------------------- k256 Scalar and Point

IDENTITY == 0
GENERATOR == 1 % Q
ZERO == 0
ONE == 1 % Q

\* Scalar::from(u64)
ScalarFrom(id) == id % Q
SAdd(a, b) == (a + b) % Q
SSub(a, b) == (a - b + Q) % Q
SMul(a, b) == (a * b) % Q
\* ProjectivePoint + ProjectivePoint
PAdd(P1, P2) == (P1 + P2) % Q
\* ProjectivePoint * Scalar
PMul(P, s) == (P * s) % Q

\* Option / CtOption: <<>> is None, <<v>> is Some(v).
None == <<>>
Some(v) == <<v>>
IsSome(o) == Len(o) = 1
Unwrap(o) == o[1]

\* The inverses of the nonzero scalars.
Inverse == [x \in 1 .. (Q - 1) |-> CHOOSE y \in Scalars : (x * y) % Q = 1]

\* Scalar::invert: None for zero.
Invert(x) == IF x = 0 THEN None ELSE Some(Inverse[x])

\* ------------------------------------------------- encodings

\* Width in bytes of the representation of a scalar and of a coordinate.
ScalarLen == 1
\* Number of values of a byte.
ByteMod == 256

\* The big-endian bytes of a number, width bytes wide.
RECURSIVE Pow(_, _)
Pow(b, e) == IF e = 0 THEN 1 ELSE b * Pow(b, e - 1)
ToBytes(v, width) ==
    [k \in 1 .. width |-> (v \div Pow(ByteMod, width - k)) % ByteMod]
\* The number a big-endian byte string stands for.
RECURSIVE BytesValue(_, _, _)
BytesValue(bytes, j, acc) ==
    IF j > Len(bytes) THEN acc
    ELSE BytesValue(bytes, j + 1, acc * ByteMod + bytes[j])

\* The affine coordinates of the point P = k*G, k # 0: P and -P share x, and
\* their y add up to the odd modulus, so exactly one of the two is odd.
PointX(P) == IF P <= Q - P THEN P ELSE Q - P
PointY(P) == P

\* to_encoded_point(compress): the SEC1 encoding of a point.
to_encoded_point(P, compress) ==
    IF P = IDENTITY THEN <<0>>
    ELSE IF compress
         THEN <<2 + (PointY(P) % 2)>> \o ToBytes(PointX(P), ScalarLen)
         ELSE <<4>> \o ToBytes(PointX(P), ScalarLen)
                    \o ToBytes(PointY(P), ScalarLen)

\* ------------------------------------------------------------ shamir.rs

\* Mutant: the coefficients are visited first to last (the .rev() is lost).
RECURSIVE HornerForward(_, _, _, _)
HornerForward(coeffs, x, i, acc) ==
    IF i > Len(coeffs) THEN acc
    ELSE HornerForward(coeffs, x, i + 1, SAdd(SMul(acc, x), coeffs[i]))

eval_polynomial_forward(coeffs, id) == HornerForward(coeffs, ScalarFrom(id), 1, ZERO)

\* Horner's rule over the coefficients in reverse, from index i down to 1.
RECURSIVE Horner(_, _, _, _)
Horner(coeffs, x, i, acc) ==
    IF i = 0 THEN acc
    ELSE Horner(coeffs, x, i - 1, SAdd(SMul(acc, x), coeffs[i]))

eval_polynomial(coeffs, id) == Horner(coeffs, ScalarFrom(id), Len(coeffs), ZERO)

\* The coefficient lists random_polynomial(secret, t) can return: the
\* first is the secret, the other t-1 are any scalars.
random_polynomial(secret, t) ==
    {p \in [1 .. t -> Scalars] : p[1] = secret}

\* ------------------------------------------------------------ vss.rs

calculate_commitment(ch) == PMul(GENERATOR, ch)

\* Mutant: id_pow is advanced by an addition.
RECURSIVE VssLoopAddPow(_, _, _, _, _)
VssLoopAddPow(commitments, id_scalar, j, rhs, id_pow) ==
    IF j > Len(commitments) THEN rhs
    ELSE VssLoopAddPow(commitments, id_scalar, j + 1,
                       PAdd(rhs, PMul(commitments[j], id_pow)),
                       SAdd(id_pow, id_scalar))

\* Mutant: the last commitment is left out.
RECURSIVE VssLoopSkipLast(_, _, _, _, _)
VssLoopSkipLast(commitments, id_scalar, j, rhs, id_pow) ==
    IF j >= Len(commitments) THEN rhs
    ELSE VssLoopSkipLast(commitments, id_scalar, j + 1,
                         PAdd(rhs, PMul(commitments[j], id_pow)),
                         SMul(id_pow, id_scalar))

\* rhs and id_pow after the commitments 1 .. j-1 have been added.
RECURSIVE VssLoop(_, _, _, _, _)
VssLoop(commitments, id_scalar, j, rhs, id_pow) ==
    IF j > Len(commitments) THEN rhs
    ELSE VssLoop(commitments, id_scalar, j + 1,
                 PAdd(rhs, PMul(commitments[j], id_pow)),
                 SMul(id_pow, id_scalar))

verify_share(id, x_i, commitments) ==
    LET lhs == PMul(GENERATOR, x_i)
        rhs == VssLoop(commitments, ScalarFrom(id), 1, IDENTITY, ONE)
    IN  lhs = rhs

\* ------------------------------------------------------------ threshold.rs

Participant(id, x_i) == [id |-> id, x_i |-> x_i, X_i |-> PMul(GENERATOR, x_i)]

\* Mutant: the denominator takes id_i - id_j.
RECURSIVE LagrangeLoopSwapped(_, _, _, _, _)
LagrangeLoopSwapped(id_i, id_list, j, num, den) ==
    IF j > Len(id_list) THEN <<num, den>>
    ELSE IF id_list[j] = id_i
         THEN LagrangeLoopSwapped(id_i, id_list, j + 1, num, den)
         ELSE LagrangeLoopSwapped(id_i, id_list, j + 1,
                  SMul(num, ScalarFrom(id_list[j])),
                  SMul(den, SSub(ScalarFrom(id_i), ScalarFrom(id_list[j]))))

\* Mutant: the entries equal to id_i are not skipped.
RECURSIVE LagrangeLoopNoSkip(_, _, _, _, _)
LagrangeLoopNoSkip(id_i, id_list, j, num, den) ==
    IF j > Len(id_list) THEN <<num, den>>
    ELSE LagrangeLoopNoSkip(id_i, id_list, j + 1,
                            SMul(num, ScalarFrom(id_list[j])),
                            SMul(den, SSub(ScalarFrom(id_list[j]), ScalarFrom(id_i))))

\* num and den after the ids 1 .. j-1 of the list have been visited.
RECURSIVE LagrangeLoop(_, _, _, _, _)
LagrangeLoop(id_i, id_list, j, num, den) ==
    IF j > Len(id_list) THEN <<num, den>>
    ELSE IF id_list[j] = id_i
         THEN LagrangeLoop(id_i, id_list, j + 1, num, den)
         ELSE LagrangeLoop(id_i, id_list, j + 1,
                           SMul(num, ScalarFrom(id_list[j])),
                           SMul(den, SSub(ScalarFrom(id_list[j]), ScalarFrom(id_i))))

\* None when den.invert().unwrap() panics.
lagrange_coefficient(id_i, id_list) ==
    LET nd == LagrangeLoop(id_i, id_list, 1, ONE, ONE)
        inv == Invert(nd[2])
    IN  IF IsSome(inv) THEN Some(SMul(nd[1], Unwrap(inv))) ELSE None

\* The fold of aggregate_public_key and aggregate_nonce: pairs is a list of
\* <<id, point>>; None when a lagrange_coefficient panics.
RECURSIVE AggregateFold(_, _, _, _)
AggregateFold(pairs, id_list, j, acc) ==
    IF j > Len(pairs) THEN Some(acc)
    ELSE LET lambda == lagrange_coefficient(pairs[j][1], id_list)
         IN  IF IsSome(lambda)
             THEN AggregateFold(pairs, id_list, j + 1,
                                PAdd(acc, PMul(pairs[j][2], Unwrap(lambda))))
             ELSE None

\* Mutant: the weights are computed over the positions 1 .. len instead of
\* the ids of the pairs.
aggregate_public_key_positions(pks) ==
    AggregateFold(pks, [j \in 1 .. Len(pks) |-> j], 1, IDENTITY)

aggregate_public_key(pks) ==
    LET id_list == [j \in 1 .. Len(pks) |-> pks[j][1]]
    IN  AggregateFold(pks, id_list, 1, IDENTITY)

\* Mutant: the weights are computed over the ids of the nonces, the id list
\* is ignored.
aggregate_nonce_own_ids(nonces, id_list) ==
    AggregateFold(nonces, [j \in 1 .. Len(nonces) |-> nonces[j][1]], 1, IDENTITY)

\* Mutant: the j-th nonce is weighted as that of the j-th id of the list.
aggregate_nonce_zipped(nonces, id_list) ==
    AggregateFold([j \in 1 .. Len(nonces) |-> <<id_list[j], nonces[j][2]>>],
                  id_list, 1, IDENTITY)

aggregate_nonce(nonces, id_list) == AggregateFold(nonces, id_list, 1, IDENTITY)

\* Mutant: the share is added to the challenge instead of multiplied.
partial_sign_plus(participant, r_i, ch) ==
    [id |-> participant.id, s_i |-> SAdd(r_i, SAdd(participant.x_i, ch))]

partial_sign(participant, r_i, ch) ==
    [id |-> participant.id, s_i |-> SAdd(r_i, SMul(participant.x_i, ch))]

\* Mutant: the partials are summed without their weights.
RECURSIVE FinalizeLoopUnweighted(_, _, _, _)
FinalizeLoopUnweighted(parts, id_list, j, s) ==
    IF j > Len(parts) THEN Some(s)
    ELSE FinalizeLoopUnweighted(parts, id_list, j + 1, SAdd(s, parts[j].s_i))

RECURSIVE FinalizeLoop(_, _, _, _)
FinalizeLoop(parts, id_list, j, s) ==
    IF j > Len(parts) THEN Some(s)
    ELSE LET lambda == lagrange_coefficient(parts[j].id, id_list)
         IN  IF IsSome(lambda)
             THEN FinalizeLoop(parts, id_list, j + 1,
                               SAdd(s, SMul(Unwrap(lambda), parts[j].s_i)))
             ELSE None

\* None when a lagrange_coefficient panics, else Some(SchnorrSignature).
finalize_signature_lagrange(parts, Rp) ==
    LET id_list == [j \in 1 .. Len(parts) |-> parts[j].id]
        s == FinalizeLoop(parts, id_list, 1, ZERO)
    IN  IF IsSome(s) THEN Some([R |-> Rp, s |-> Unwrap(s)]) ELSE None

\* ------------------------------------------------------------ schnorr.rs

compute_nonce_point(r) == PMul(GENERATOR, r)

\* to_encoded_point(false): the identity has its own one-byte encoding, any
\* other point is encoded by its coordinates.
EncodePoint(P) == to_encoded_point(P, FALSE)

\* The digest of a byte string: a toy compression function absorbing one
\* byte at a time, standing for SHA-256.
RECURSIVE Sha256(_, _, _)
Sha256(bytes, j, h) ==
    IF j > Len(bytes) THEN h
    ELSE Sha256(bytes, j + 1, (3 * h + bytes[j] + 1) % HashMod)

\* Scalar::from_repr: None when the bytes are not below the modulus.
FromRepr(digest) == IF digest < Q THEN Some(digest) ELSE None

\* None when Scalar::from_repr(..).unwrap() panics.
compute_challenge(Rp, X, m) ==
    FromRepr(Sha256(EncodePoint(Rp) \o EncodePoint(X) \o m, 1, 0))

\* Mutant: rhs is R - X*c.
verify_minus(sig, m, X) ==
    LET ch == compute_challenge(sig.R, X, m)
    IN  IF IsSome(ch)
        THEN Some(PMul(GENERATOR, sig.s) = PAdd(sig.R, Q - PMul(X, Unwrap(ch))))
        ELSE None

\* None when compute_challenge panics, else Some(lhs == rhs).
verify(sig, m, X) ==
    LET ch == compute_challenge(sig.R, X, m)
    IN  IF IsSome(ch)
        THEN Some(PMul(GENERATOR, sig.s) = PAdd(sig.R, PMul(X, Unwrap(ch))))
        ELSE None

\* ------------------------------------------------------------ util.rs

\* Result: Ok(v) or Err(e).
Ok(v) == [ok |-> TRUE, val |-> v]
Err(e) == [ok |-> FALSE, err |-> e]

\* Text is a sequence of characters; hex::encode writes lower-case digits.
HexDigits == <<"0", "1", "2", "3", "4", "5", "6", "7",
               "8", "9", "a", "b", "c", "d", "e", "f">>
UpperDigits == <<"A", "B", "C", "D", "E", "F">>

\* The value of a hex digit, None for any other character.
HexValue(ch) ==
    IF \E v \in 0 .. 15 : HexDigits[v + 1] = ch
    THEN Some(CHOOSE v \in 0 .. 15 : HexDigits[v + 1] = ch)
    ELSE IF \E v \in 1 .. 6 : UpperDigits[v] = ch
         THEN Some(9 + CHOOSE v \in 1 .. 6 : UpperDigits[v] = ch)
         ELSE None

\* Mutant: the two digits of a byte are written low nibble first.
hex_encode_swapped(bytes) ==
    [k \in 1 .. 2 * Len(bytes) |->
        IF k % 2 = 1 THEN HexDigits[(bytes[(k + 1) \div 2] % 16) + 1]
                     ELSE HexDigits[(bytes[k \div 2] \div 16) + 1]]

\* hex::encode: two digits per byte, high nibble first.
hex_encode(bytes) ==
    [k \in 1 .. 2 * Len(bytes) |->
        IF k % 2 = 1 THEN HexDigits[(bytes[(k + 1) \div 2] \div 16) + 1]
                     ELSE HexDigits[(bytes[k \div 2] % 16) + 1]]

\* Vec::from_hex: an odd length is refused first, then the first character
\* that is no hex digit.  An error message is a sequence of strings; the
\* position of the character, which the message also gives, is left out.
from_hex(text) ==
    IF Len(text) % 2 # 0 THEN Err(<<"Odd number of digits">>)
    ELSE LET bad == {k \in 1 .. Len(text) : ~IsSome(HexValue(text[k]))}
         IN  IF bad # {}
             THEN LET k == CHOOSE i \in bad : \A j \in bad : i <= j
                  IN  Err(<<"Invalid character ", text[k]>>)
             ELSE Ok([b \in 1 .. Len(text) \div 2 |->
                         16 * Unwrap(HexValue(text[2 * b - 1]))
                             + Unwrap(HexValue(text[2 * b]))])

\* A call that panics, with the message of the panic.
Panic(e) == [ok |-> FALSE, panic |-> e]
IsErr(r) == ~r.ok /\ "err" \in DOMAIN r
IsPanic(r) == ~r.ok /\ "panic" \in DOMAIN r

scalar_to_hex(scalar) == hex_encode(ToBytes(scalar, ScalarLen))

\* Mutant: the length of the decoded bytes is not checked, and
\* copy_from_slice panics on a slice of another length.
hex_to_scalar_unchecked(text) ==
    LET raw == from_hex(text)
    IN  IF ~raw.ok THEN Err(<<"Invalid hex string: ">> \o raw.err)
        ELSE IF Len(raw.val) # ScalarLen
             THEN Panic(<<"source slice length does not match destination">>)
             ELSE LET sc == FromRepr(BytesValue(raw.val, 1, 0))
                  IN  IF IsSome(sc) THEN Ok(Unwrap(sc))
                      ELSE Err(<<"Invalid scalar">>)

hex_to_scalar(text) ==
    LET raw == from_hex(text)
    IN  IF ~raw.ok THEN Err(<<"Invalid hex string: ">> \o raw.err)
        ELSE IF Len(raw.val) # ScalarLen THEN Err(<<"Invalid scalar length">>)
             ELSE LET sc == FromRepr(BytesValue(raw.val, 1, 0))
                  IN  IF IsSome(sc) THEN Ok(Unwrap(sc))
                      ELSE Err(<<"Invalid scalar">>)

\* EncodedPoint::from_bytes: the tag decides the length.
encoded_point_from_bytes(raw) ==
    IF Len(raw) = 0 THEN Err(<<"PointEncoding">>)
    ELSE LET tag == raw[1]
             expected == CASE tag = 0 -> 1
                           [] tag \in {2, 3, 5} -> 1 + ScalarLen
                           [] tag = 4 -> 1 + 2 * ScalarLen
                           [] OTHER -> 0
         IN  IF expected = 0 \/ Len(raw) # expected
             THEN Err(<<"PointEncoding">>)
             ELSE Ok(raw)

\* AffinePoint::decompress: the point with this x and this parity of y.
decompress(x, y_is_odd) ==
    LET S == {P \in Points \ {IDENTITY} :
                 PointX(P) = x /\ (PointY(P) % 2 = 1) = y_is_odd}
    IN  IF S = {} THEN None ELSE Some(CHOOSE P \in S : TRUE)

\* AffinePoint::from_encoded_point
from_encoded_point(enc) ==
    LET tag == enc[1]
        x == BytesValue(SubSeq(enc, 2, 1 + ScalarLen), 1, 0)
    IN  CASE tag = 0 -> Some(IDENTITY)
          [] tag \in {2, 3} -> decompress(x, tag = 3)
          [] tag = 5 -> decompress(x, FALSE)
          [] OTHER ->
               LET y == BytesValue(SubSeq(enc, 2 + ScalarLen, 1 + 2 * ScalarLen), 1, 0)
                   S == {P \in Points \ {IDENTITY} : PointX(P) = x /\ PointY(P) = y}
               IN  IF S = {} THEN None ELSE Some(CHOOSE P \in S : TRUE)

pp_to_hex(point) == hex_encode(to_encoded_point(point, TRUE))

hex_to_pp(text) ==
    LET raw == from_hex(text)
    IN  IF ~raw.ok THEN Err(<<"Invalid hex string: ">> \o raw.err)
        ELSE LET encoded == encoded_point_from_bytes(raw.val)
             IN  IF ~encoded.ok
                 THEN Err(<<"Invalid encoded point: ">> \o encoded.err)
                 ELSE LET affine == from_encoded_point(encoded.val)
                      IN  IF IsSome(affine) THEN Ok(Unwrap(affine))
                          ELSE Err(<<"Invalid affine point">>)

\* ------------------------------------------------------------ helpers

\* The strictly increasing sequence of the elements of a set of numbers.
SortedSeq(S) ==
    CHOOSE s \in [1 .. Cardinality(S) -> S] :
        \A i, j \in 1 .. Cardinality(S) : i < j => s[i] < s[j]

\* The lists of distinct elements of S, in any order.
Orderings(S) ==
    {s \in [1 .. Cardinality(S) -> S] :
        \A i, j \in 1 .. Cardinality(S) : i # j => s[i] # s[j]}

Map(f(_), s) == [j \in 1 .. Len(s) |-> f(s[j])]
IdOf(p) == p.id
Range(s) == {s[j] : j \in 1 .. Len(s)}

\* tests/threshold_schnorr.rs: the key the signers' shares interpolate to,
\* combined_x = sum of lambda_i * x_i over the ids of the signers.
RECURSIVE CombinedFold(_, _, _, _, _)
CombinedFold(vals, who, l, j, acc) ==
    IF j > Len(vals) THEN acc
    ELSE CombinedFold(vals, who, l, j + 1,
             SAdd(acc, SMul(Unwrap(lagrange_coefficient(who[j], l)), vals[j])))

X_iOf(p) == p.x_i
r_iOf(np) == np.r_i
\* (The lists are bound first, so that each is computed once and not at
\* every step of the fold.)
combined_x(chosen, l) ==
    CHOOSE x \in {CombinedFold(vals, who, id_list, 1, ZERO) :
                      vals \in {Map(X_iOf, chosen)}, who \in {Map(IdOf, chosen)},
                      id_list \in {l}} : TRUE
\* The nonce the signers' nonces interpolate to, over the id list l.
combined_r(pairs, l) ==
    CHOOSE r \in {CombinedFold(vals, who, id_list, 1, ZERO) :
                      vals \in {Map(r_iOf, pairs)}, who \in {Map(IdOf, pairs)},
                      id_list \in {l}} : TRUE

\* ------------------------------------------------------------ key generation

\* shamir_keygen(n, t) with the coefficients p that random_polynomial drew.
KeygenOutput(n, p) ==
    [participants |-> [id \in 1 .. n |-> Participant(id, eval_polynomial(p, id))],
     public_key   |-> PMul(GENERATOR, p[1]),
     commitments  |-> [j \in 1 .. Len(p) |-> calculate_commitment(p[j])]]

\* A call shamir_keygen(n, t) that passes the assertion, n <= maxN and
\* t <= maxT.
ShamirKeygen(maxN, maxT) ==
    /\ pc = "init"
    /\ \E n \in 2 .. maxN, t \in 2 .. maxT, secret \in Scalars :
         /\ t >= 2 /\ t <= n
         /\ \E p \in random_polynomial(secret, t) :
              /\ poly' = p
              /\ threshold' = t
              /\ num_shares' = n
              /\ keygen_output' = KeygenOutput(n, p)
    /\ participants' = participants
    /\ pc' = "keygen"
    /\ UNCHANGED <<sessionVars, aggVars, vss, lag, ioVars>>

shamir_keygen == ShamirKeygen(MaxN, MaxT)

\* ------------------------------------------------------------ signing session

\* The caller picks the participants that sign, in the order of the
\* participant list.
ChooseSigners ==
    /\ pc = "keygen"
    /\ \E S \in SUBSET (1 .. Len(keygen_output.participants)) :
         signers' = [j \in 1 .. Cardinality(S) |->
                        keygen_output.participants[SortedSeq(S)[j]]]
    /\ pc' = "INIT"
    /\ UNCHANGED <<keyVars, ids, msg, nonce_pairs, R, c, partials, signature,
                   vmsg, verdict, aggVars, vss, lag, ioVars>>

\* Each signer: generate_nonce and compute_nonce_point.
GenerateNonces ==
    /\ pc = "INIT"
    /\ \E r \in [1 .. Len(signers) -> Scalars] :
         nonce_pairs' = [j \in 1 .. Len(signers) |->
                            [id |-> signers[j].id, r_i |-> r[j],
                             R_i |-> compute_nonce_point(r[j])]]
    /\ pc' = "NONCES_GENERATED"
    /\ UNCHANGED <<keyVars, signers, ids, msg, R, c, partials, signature, vmsg,
                   verdict, aggVars, vss, lag, ioVars>>

NoncePoints == [j \in 1 .. Len(nonce_pairs) |->
                   <<nonce_pairs[j].id, nonce_pairs[j].R_i>>]

\* aggregate_nonce over the nonce points of the session and the id list l.
AggregateNonceOver(l) ==
    /\ pc = "NONCES_GENERATED"
    /\ ids' = l
    /\ R' = aggregate_nonce(NoncePoints, l)
    /\ pc' = IF IsSome(R') THEN "NONCE_AGGREGATED" ELSE "panicked"
    /\ UNCHANGED <<keyVars, signers, msg, nonce_pairs, c, partials, signature,
                   vmsg, verdict, aggVars, vss, lag, ioVars>>

\* The id list is that of the signers.
AggregateNonce == AggregateNonceOver(Map(IdOf, signers))

\* The id list is that of another set of participants than the signers.
AggregateNonceMismatched ==
    \E S \in SUBSET (1 .. Len(keygen_output.participants)) :
        /\ S # Range(Map(IdOf, signers))
        /\ AggregateNonceOver(SortedSeq(S))

\* compute_challenge for the message to sign.
ComputeChallenge ==
    /\ pc = "NONCE_AGGREGATED"
    /\ \E m \in Msgs : msg' = m
    /\ c' = compute_challenge(Unwrap(R), keygen_output.public_key, msg')
    /\ pc' = IF IsSome(c') THEN "CHALLENGE_COMPUTED" ELSE "panicked"
    /\ UNCHANGED <<keyVars, signers, ids, nonce_pairs, R, partials,
                   signature, vmsg, verdict, aggVars, vss, lag, ioVars>>

\* Each signer: partial_sign with its own nonce and the challenge.
PartialSign ==
    /\ pc = "CHALLENGE_COMPUTED"
    /\ partials' = [j \in 1 .. Len(signers) |->
                       partial_sign(signers[j], nonce_pairs[j].r_i, Unwrap(c))]
    /\ pc' = "PARTIALS_COLLECTED"
    /\ UNCHANGED <<keyVars, signers, ids, msg, nonce_pairs, R, c, signature,
                   vmsg, verdict, aggVars, vss, lag, ioVars>>

Finalize ==
    /\ pc = "PARTIALS_COLLECTED"
    /\ signature' = finalize_signature_lagrange(partials, Unwrap(R))
    /\ pc' = IF IsSome(signature') THEN "FINALIZED" ELSE "panicked"
    /\ UNCHANGED <<keyVars, signers, ids, msg, nonce_pairs, R, c, partials,
                   vmsg, verdict, aggVars, vss, lag, ioVars>>

\* verify against the group public key, for one of the messages msgs.
VerifyFor(msgs) ==
    /\ pc = "FINALIZED"
    /\ \E m \in msgs : vmsg' = m
    /\ verdict' = verify(Unwrap(signature), vmsg', keygen_output.public_key)
    /\ pc' = IF ~IsSome(verdict') THEN "panicked"
             ELSE IF Unwrap(verdict') THEN "VERIFIED" ELSE "REJECTED"
    /\ UNCHANGED <<keyVars, signers, ids, msg, nonce_pairs, R, c, partials,
                   signature, aggVars, vss, lag, ioVars>>

\* verify for the message that was signed.
Verify == VerifyFor({msg})

\* verify for another message than the one that was signed.
VerifyOther == VerifyFor(Msgs \ {msg})

\* ------------------------------------------------------------ public key

\* aggregate_public_key over the public shares of some participants, in
\* any order.
AggregatePublicKey ==
    /\ pc = "keygen"
    /\ \E S \in SUBSET (1 .. Len(keygen_output.participants)) :
         \E o \in Orderings(S) :
           public_keys' = [j \in 1 .. Len(o) |->
                              <<keygen_output.participants[o[j]].id,
                                keygen_output.participants[o[j]].X_i>>]
    /\ rev_public_key' = aggregate_public_key(public_keys')
    /\ pc' = IF IsSome(rev_public_key') THEN "aggregated" ELSE "panicked"
    /\ UNCHANGED <<keyVars, sessionVars, vss, lag, ioVars>>

\* ------------------------------------------------------------ specification

Init ==
    /\ pc = "init"
    /\ poly = <<>>
    /\ threshold = 0
    /\ num_shares = 0
    /\ participants = <<>>
    /\ keygen_output = [participants |-> <<>>, public_key |-> IDENTITY,
                        commitments |-> <<>>]
    /\ signers = <<>>
    /\ ids = <<>>
    /\ msg = <<>>
    /\ nonce_pairs = <<>>
    /\ R = None
    /\ c = None
    /\ partials = <<>>
    /\ signature = None
    /\ vmsg = <<>>
    /\ verdict = None
    /\ public_keys = <<>>
    /\ rev_public_key = None
    /\ vss = [step |-> "init"]
    /\ lag = [step |-> "init"]
    /\ hex = [step |-> "init"]
    /\ cli = [step |-> "init"]
    /\ prev = [step |-> "init"]
    /\ reuse = [step |-> "init"]
    /\ sessions = <<>>

Next ==
    \/ shamir_keygen
    \/ ChooseSigners
    \/ GenerateNonces
    \/ AggregateNonce
    \/ ComputeChallenge
    \/ PartialSign
    \/ Finalize
    \/ Verify
    \/ AggregatePublicKey

Spec == Init /\ [][Next]_vars

\* A session whose id list for aggregate_nonce is not that of its partials,
\* in a group of at most MaxN - 1 participants.
NextMismatch ==
    \/ ShamirKeygen(MaxN - 1, MaxT)
    \/ ChooseSigners
    \/ GenerateNonces
    \/ AggregateNonceMismatched
    \/ ComputeChallenge
    \/ PartialSign
    \/ Finalize
    \/ Verify

SpecMismatch == Init /\ [][NextMismatch]_vars

\* A session whose signature is then verified for another message, in a
\* group of at most MaxN - 1 participants.
NextOtherMessage ==
    \/ ShamirKeygen(MaxN - 1, MaxT)
    \/ ChooseSigners
    \/ GenerateNonces
    \/ AggregateNonce
    \/ ComputeChallenge
    \/ PartialSign
    \/ Finalize
    \/ VerifyOther

SpecOtherMessage == Init /\ [][NextOtherMessage]_vars

\* One session run to its end, in a group of at most MaxN - 1 participants:
\* main of examples/2of3.rs and the tests run each step once, one after the
\* other, and a step that can be taken is taken.
NextSession ==
    \/ ShamirKeygen(MaxN - 1, MaxT)
    \/ ChooseSigners
    \/ GenerateNonces
    \/ AggregateNonce
    \/ ComputeChallenge
    \/ PartialSign
    \/ Finalize
    \/ Verify

SpecSession == Init /\ [][NextSession]_vars /\ WF_vars(NextSession)

\* ------------------------------------------------------------ share check

\* Largest id a share is checked for; ids stay below Q, as every u64 is
\* below the order of the curve.
MaxId == MaxN
\* Largest number of coefficients of a polynomial whose shares are checked.
VssMaxT == MaxT + 1

\* A participant of shamir_keygen checks its share against the commitments
\* of the same call.
VssParticipantShare ==
    /\ pc = "keygen" /\ vss.step = "init"
    /\ \E j \in 1 .. Len(keygen_output.participants) :
         vss' = [step |-> "share", tamper |-> "none",
                 id |-> keygen_output.participants[j].id,
                 x_i |-> keygen_output.participants[j].x_i,
                 commitments |-> keygen_output.commitments,
                 share_id |-> keygen_output.participants[j].id,
                 replaced |-> 0, wrong_coefs |-> <<>>]
    /\ UNCHANGED <<pc, keyVars, sessionVars, aggVars, lag, ioVars>>

\* tests/vss.rs: the share is eval_polynomial at an id, the commitments are
\* those of the coefficients.
VssEvalShare ==
    /\ pc = "keygen" /\ vss.step = "init"
    /\ \E p_id \in 0 .. MaxId :
         vss' = [step |-> "share", tamper |-> "none",
                 id |-> p_id,
                 x_i |-> eval_polynomial(poly, p_id),
                 commitments |-> Map(calculate_commitment, poly),
                 share_id |-> p_id,
                 replaced |-> 0, wrong_coefs |-> <<>>]
    /\ UNCHANGED <<pc, keyVars, sessionVars, aggVars, lag, ioVars>>

\* The share is presented under another id.
VssWrongId ==
    /\ vss.step = "share"
    /\ \E wrong_id \in (0 .. MaxId) \ {vss.id} :
         vss' = [vss EXCEPT !.step = "tampered", !.tamper = "id",
                            !.id = wrong_id]
    /\ UNCHANGED <<pc, keyVars, sessionVars, aggVars, lag, ioVars>>

\* One commitment is replaced by a different point.
VssReplaceCommitment ==
    /\ vss.step = "share"
    /\ \E j \in 1 .. Len(vss.commitments), C \in Points :
         /\ C # vss.commitments[j]
         /\ vss' = [vss EXCEPT !.step = "tampered", !.tamper = "commitment",
                               !.commitments[j] = C, !.replaced = j]
    /\ UNCHANGED <<pc, keyVars, sessionVars, aggVars, lag, ioVars>>

\* The commitments are those of a different polynomial with the same
\* secret.
VssWrongCoefs ==
    /\ vss.step = "share"
    /\ \E wrong \in random_polynomial(poly[1], Len(poly)) :
         /\ wrong # poly
         /\ vss' = [vss EXCEPT !.step = "tampered", !.tamper = "coefs",
                               !.commitments = Map(calculate_commitment, wrong),
                               !.wrong_coefs = wrong]
    /\ UNCHANGED <<pc, keyVars, sessionVars, aggVars, lag, ioVars>>

VerifyShare ==
    /\ vss.step \in {"share", "tampered"}
    /\ vss' = [step |-> "checked", tamper |-> vss.tamper, id |-> vss.id,
               x_i |-> vss.x_i, commitments |-> vss.commitments,
               share_id |-> vss.share_id, replaced |-> vss.replaced,
               wrong_coefs |-> vss.wrong_coefs,
               is_valid |-> verify_share(vss.id, vss.x_i, vss.commitments)]
    /\ UNCHANGED <<pc, keyVars, sessionVars, aggVars, lag, ioVars>>

NextVss ==
    \/ ShamirKeygen(MaxN, VssMaxT)
    \/ VssParticipantShare
    \/ VssEvalShare
    \/ VssWrongId
    \/ VssReplaceCommitment
    \/ VssWrongCoefs
    \/ VerifyShare

SpecVss == Init /\ [][NextVss]_vars

\* ------------------------------------------------------------ interpolation

\* A polynomial is sampled at distinct nonzero ids, given in any order.
LagSample ==
    /\ lag.step = "init"
    /\ \E t \in 1 .. VssMaxT, S \in SUBSET (1 .. MaxId) :
         \E coeffs \in [1 .. t -> Scalars], o \in Orderings(S) :
           lag' = [step |-> "sampled", coeffs |-> coeffs, ids |-> o,
                   shares |-> [j \in 1 .. Len(o) |-> eval_polynomial(coeffs, o[j])]]
    /\ UNCHANGED <<pc, keyVars, sessionVars, aggVars, vss, ioVars>>

\* The lagrange_coefficient-weighted sum of the samples.
LagReconstruct ==
    /\ lag.step = "sampled"
    /\ lag' = [step |-> "reconstructed", coeffs |-> lag.coeffs, ids |-> lag.ids,
               shares |-> lag.shares,
               result |-> CombinedFold(lag.shares, lag.ids, lag.ids, 1, ZERO)]
    /\ UNCHANGED <<pc, keyVars, sessionVars, aggVars, vss, ioVars>>

\* What a call that returns Some(v), or panics on None, gives its caller.
Returned(option) ==
    IF IsSome(option) THEN Ok(Unwrap(option))
    ELSE Panic(<<"called Option::unwrap() on a None value">>)

\* lagrange_coefficient on any list of up to three ids, duplicates included.
LagCoefficient ==
    /\ lag.step = "init"
    /\ \E l \in 0 .. 3, id_i \in 0 .. MaxId :
         \E id_list \in [1 .. l -> 0 .. MaxId] :
           lag' = [step |-> "coefficient", id_i |-> id_i, ids |-> id_list,
                   result |-> Returned(lagrange_coefficient(id_i, id_list))]
    /\ UNCHANGED <<pc, keyVars, sessionVars, aggVars, vss, ioVars>>

\* finalize_signature_lagrange on any one or two partial signatures.
LagFinalize ==
    /\ lag.step = "init"
    /\ \E l \in 1 .. 2, Rp \in Points :
         \E id_list \in [1 .. l -> 0 .. MaxId], s \in [1 .. l -> Scalars] :
           lag' = [step |-> "finalized", ids |-> id_list,
                   result |-> Returned(finalize_signature_lagrange(
                       [j \in 1 .. l |-> [id |-> id_list[j], s_i |-> s[j]]], Rp))]
    /\ UNCHANGED <<pc, keyVars, sessionVars, aggVars, vss, ioVars>>

NextLagrange ==
    \/ LagSample
    \/ LagReconstruct
    \/ LagCoefficient
    \/ LagFinalize

SpecLagrange == Init /\ [][NextLagrange]_vars

\* The calls of lagrange_coefficient and finalize_signature_lagrange on lists
\* of any ids.
NextCoefficient ==
    \/ LagCoefficient
    \/ LagFinalize

SpecCoefficient == Init /\ [][NextCoefficient]_vars

\* ------------------------------------------------------------ input order
\* aggregate_public_key, aggregate_nonce and finalize_signature_lagrange on a
\* list of up to MaxListLen pairs, with any ids and with values up to
\* MaxNonce, and on the same list in another order.

\* The lists that tests/threshold_schnorr.rs puts in another order have
\* t = 3 entries.
MaxListLen == 3
Permute(s, perm) == [j \in 1 .. Len(s) |-> s[perm[j]]]
\* The lists of l pairs <<id, value>>.
PairLists(l) ==
    {[j \in 1 .. l |-> <<id_list[j], vals[j]>>] :
        id_list \in [1 .. l -> 0 .. MaxId], vals \in [1 .. l -> 0 .. MaxNonce]}
AsPartials(pairs) ==
    [j \in 1 .. Len(pairs) |-> [id |-> pairs[j][1], s_i |-> pairs[j][2]]]
Permuted(fn, pairs, perm, id_perm, result, permuted_result) ==
    /\ lag' = [step |-> "permuted", fn |-> fn, pairs |-> pairs, perm |-> perm,
               id_perm |-> id_perm, result |-> Returned(result),
               permuted_result |-> Returned(permuted_result)]
    /\ UNCHANGED <<pc, keyVars, sessionVars, aggVars, vss, ioVars>>

PermutedPublicKeys ==
    /\ lag.step = "init"
    /\ \E l \in 0 .. MaxListLen :
         \E pairs \in PairLists(l), perm \in Orderings(1 .. l) :
           Permuted("aggregate_public_key", pairs, perm, perm,
                    aggregate_public_key(pairs),
                    aggregate_public_key(Permute(pairs, perm)))

\* The nonces and the id list are each put in an order of their own.
PermutedNonces ==
    /\ lag.step = "init"
    /\ \E l \in 0 .. MaxListLen :
         \E pairs \in PairLists(l), perm \in Orderings(1 .. l),
            id_perm \in Orderings(1 .. l) :
           LET id_list == [j \in 1 .. l |-> pairs[j][1]]
           IN  Permuted("aggregate_nonce", pairs, perm, id_perm,
                        aggregate_nonce(pairs, id_list),
                        aggregate_nonce(Permute(pairs, perm),
                                        Permute(id_list, id_perm)))

PermutedPartials ==
    /\ lag.step = "init"
    /\ \E l \in 0 .. MaxListLen, Rp \in {GENERATOR} :
         \E pairs \in PairLists(l), perm \in Orderings(1 .. l) :
           Permuted("finalize_signature_lagrange", pairs, perm, perm,
                    finalize_signature_lagrange(AsPartials(pairs), Rp),
                    finalize_signature_lagrange(AsPartials(Permute(pairs, perm)),
                                                Rp))

NextOrder ==
    \/ PermutedPublicKeys
    \/ PermutedNonces
    \/ PermutedPartials

SpecOrder == Init /\ [][NextOrder]_vars

\* ------------------------------------------------------------ two sessions

\* A whole signing session of the participants chosen with the nonces rs, for
\* the message m and the public key X: nonce points, aggregate_nonce,
\* compute_challenge, partial_sign of each, finalize_signature_lagrange and,
\* when verified, the assertion that the signature verifies.
RunSession(chosen, rs, m, X, verified, done) ==
    /\ signers' = chosen
    /\ ids' = Map(IdOf, chosen)
    /\ msg' = m
    /\ nonce_pairs' = [j \in 1 .. Len(chosen) |->
                          [id |-> chosen[j].id, r_i |-> rs[j],
                           R_i |-> compute_nonce_point(rs[j])]]
    /\ R' = aggregate_nonce([j \in 1 .. Len(chosen) |->
                                <<nonce_pairs'[j].id, nonce_pairs'[j].R_i>>], ids')
    /\ c' = IF IsSome(R') THEN compute_challenge(Unwrap(R'), X, m) ELSE None
    /\ partials' = IF IsSome(c')
                   THEN [j \in 1 .. Len(chosen) |->
                            partial_sign(chosen[j], rs[j], Unwrap(c'))]
                   ELSE <<>>
    /\ signature' = IF IsSome(c')
                    THEN finalize_signature_lagrange(partials', Unwrap(R'))
                    ELSE None
    /\ vmsg' = IF verified THEN m ELSE <<>>
    /\ verdict' = IF verified /\ IsSome(signature')
                  THEN verify(Unwrap(signature'), m, X) ELSE None
    /\ pc' = IF IsSome(signature') /\ (verified => verdict' = Some(TRUE))
             THEN done ELSE "panicked"

\* The subsets of t of the participants' positions.
TSubsets ==
    {S \in SUBSET (1 .. Len(keygen_output.participants)) :
        Cardinality(S) = threshold}
Reverse(s) == [j \in 1 .. Len(s) |-> s[Len(s) + 1 - j]]

\* tests/threshold_schnorr.rs, test_compare_signatures_of_different_subsets:
\* t of the participants sign the one message of the test, in the order of
\* the participant list.
FirstSession ==
    /\ pc = "keygen"
    /\ \E S \in TSubsets, rs \in [1 .. threshold -> Scalars], m \in {<<0>>} :
         RunSession([j \in 1 .. threshold |->
                        keygen_output.participants[SortedSeq(S)[j]]],
                    rs, m, keygen_output.public_key, TRUE, "FINALIZED")
    /\ UNCHANGED <<keyVars, aggVars, vss, lag, ioVars>>

\* Another t of the participants, in reverse order, aggregate their public
\* shares and sign the same message with nonces of their own, under the
\* aggregated key.
SecondSession ==
    /\ pc = "FINALIZED"
    /\ prev.step = "init"
    /\ prev' = [step |-> "first", ids |-> ids, c |-> Unwrap(c),
                r |-> combined_r(nonce_pairs, ids),
                signature |-> Unwrap(signature)]
    /\ \E S \in TSubsets \ {Range(ids)}, rs \in [1 .. threshold -> Scalars] :
         LET chosen == [j \in 1 .. threshold |->
                           keygen_output.participants[Reverse(SortedSeq(S))[j]]]
         IN  /\ public_keys' = [j \in 1 .. threshold |->
                                   <<chosen[j].id, chosen[j].X_i>>]
             /\ rev_public_key' = aggregate_public_key(public_keys')
             /\ IF IsSome(rev_public_key')
                THEN RunSession(chosen, rs, msg, Unwrap(rev_public_key'), FALSE,
                                "SECOND_FINALIZED")
                ELSE pc' = "panicked" /\ UNCHANGED sessionVars
    /\ UNCHANGED <<keyVars, vss, lag, hex, cli, reuse, sessions>>

\* The smallest threshold shamir_keygen accepts.
MinT == 2

\* ------------------------------------------------------------ no dealer
\* lib.rs: the participants draw their secret keys themselves, and the group
\* key is whatever aggregate_public_key makes of the public shares handed to
\* it.

\* lib.rs, generate_participant for the ids 1 .. n, n <= MaxN - 1.
GenerateParticipants ==
    /\ pc = "init"
    /\ \E n \in 1 .. (MaxN - 1) :
         \E xs \in [1 .. n -> Scalars] :
           participants' = [id \in 1 .. n |-> Participant(id, xs[id])]
    /\ pc' = "participants"
    /\ UNCHANGED <<poly, threshold, num_shares, keygen_output, sessionVars,
                   aggVars, vss, lag, ioVars>>

\* lib.rs, test_threshold_schnorr_3_5 and
\* test_invalid_signature_wrong_participants: the public key is aggregated
\* from the public shares of the participants at the positions K, and the
\* participants at the positions S sign for that key.
SessionUnderAggregatedKey(S, K) ==
    /\ pc = "participants"
    /\ public_keys' = [j \in 1 .. Cardinality(K) |->
                           <<participants[SortedSeq(K)[j]].id,
                             participants[SortedSeq(K)[j]].X_i>>]
    /\ rev_public_key' = aggregate_public_key(public_keys')
    /\ IF IsSome(rev_public_key')
       THEN \E rs \in [1 .. Cardinality(S) -> Scalars] :
                RunSession([j \in 1 .. Cardinality(S) |->
                               participants[SortedSeq(S)[j]]],
                           rs, <<0>>, Unwrap(rev_public_key'), FALSE, "FINALIZED")
       ELSE pc' = "panicked" /\ UNCHANGED sessionVars
    /\ UNCHANGED <<keyVars, vss, lag, ioVars>>

\* The signers are the participants whose shares made the public key.
SessionOfSameSet ==
    \E S \in (SUBSET (1 .. Len(participants))) \ {{}} :
        SessionUnderAggregatedKey(S, S)

\* The public key is made of the shares of another set than the signers.
SessionOfOtherSet ==
    \E S \in (SUBSET (1 .. Len(participants))) \ {{}} :
        \E K \in (SUBSET (1 .. Len(participants))) \ {{}, S} :
            SessionUnderAggregatedKey(S, K)

\* verify against the aggregated public key.
VerifyAggregated ==
    /\ pc = "FINALIZED"
    /\ vmsg' = msg
    /\ verdict' = verify(Unwrap(signature), msg, Unwrap(rev_public_key))
    /\ pc' = IF ~IsSome(verdict') THEN "panicked"
             ELSE IF Unwrap(verdict') THEN "VERIFIED" ELSE "REJECTED"
    /\ UNCHANGED <<keyVars, signers, ids, msg, nonce_pairs, R, c, partials,
                   signature, aggVars, vss, lag, ioVars>>

NextNoDealer ==
    \/ GenerateParticipants
    \/ SessionOfSameSet
    \/ SessionOfOtherSet
    \/ VerifyAggregated

SpecNoDealer == Init /\ [][NextNoDealer]_vars

\* ------------------------------------------------------------ sessions side by side
\* Two sessions of one group, each a thread or process of its own that calls
\* the functions of the library one after the other with values of its own;
\* the steps of the two are taken in any order.  The group key is read by
\* both and written by none.

\* tests/threshold_schnorr.rs: the first session is run by the first t
\* participants, the second by the last t in reverse order.
StartSessions ==
    /\ pc = "keygen"
    /\ LET n == Len(keygen_output.participants)
           fresh(chosen) ==
               [pc |-> "INIT", signers |-> chosen, ids |-> Map(IdOf, chosen),
                msg |-> <<0>>, nonce_pairs |-> <<>>, R |-> None, c |-> None,
                partials |-> <<>>, signature |-> None, verdict |-> None]
       IN  sessions' =
               <<fresh([j \in 1 .. threshold |-> keygen_output.participants[j]]),
                 fresh([j \in 1 .. threshold |->
                           keygen_output.participants[n + 1 - j]])>>
    /\ pc' = "sessions"
    /\ UNCHANGED <<keyVars, sessionVars, aggVars, vss, lag, hex, cli, prev, reuse>>

\* Session k moves on to the record next; nothing else changes.
SessionMoves(k, next) ==
    /\ sessions' = [sessions EXCEPT ![k] = next]
    /\ UNCHANGED <<pc, keyVars, sessionVars, aggVars, vss, lag, hex, cli, prev,
                   reuse>>

\* Each signer of session k: generate_nonce and compute_nonce_point.
SessionGenerateNonces(k) ==
    /\ pc = "sessions" /\ sessions[k].pc = "INIT"
    /\ \E rs \in [1 .. Len(sessions[k].signers) -> 0 .. MaxNonce] :
         SessionMoves(k, [sessions[k] EXCEPT
             !.nonce_pairs = [j \in 1 .. Len(rs) |->
                                 [id |-> sessions[k].signers[j].id, r_i |-> rs[j],
                                  R_i |-> compute_nonce_point(rs[j])]],
             !.pc = "NONCES_GENERATED"])

SessionAggregateNonce(k) ==
    /\ pc = "sessions" /\ sessions[k].pc = "NONCES_GENERATED"
    /\ LET s == sessions[k]
           Rp == aggregate_nonce([j \in 1 .. Len(s.nonce_pairs) |->
                                     <<s.nonce_pairs[j].id, s.nonce_pairs[j].R_i>>],
                                 s.ids)
       IN  SessionMoves(k, [s EXCEPT
               !.R = Rp,
               !.pc = IF IsSome(Rp) THEN "NONCE_AGGREGATED" ELSE "panicked"])

SessionComputeChallenge(k) ==
    /\ pc = "sessions" /\ sessions[k].pc = "NONCE_AGGREGATED"
    /\ LET s == sessions[k]
           ch == compute_challenge(Unwrap(s.R), keygen_output.public_key, s.msg)
       IN  SessionMoves(k, [s EXCEPT
               !.c = ch,
               !.pc = IF IsSome(ch) THEN "CHALLENGE_COMPUTED" ELSE "panicked"])

\* Mutant: the challenge is read from a place that both sessions write, and
\* holds what the other session computed when it has computed one.
SessionPartialSignShared(k) ==
    /\ pc = "sessions" /\ sessions[k].pc = "CHALLENGE_COMPUTED"
    /\ LET s == sessions[k]
           o == sessions[3 - k]
           ch == IF IsSome(o.c) THEN Unwrap(o.c) ELSE Unwrap(s.c)
       IN  SessionMoves(k, [s EXCEPT
               !.partials = [j \in 1 .. Len(s.signers) |->
                                partial_sign(s.signers[j], s.nonce_pairs[j].r_i, ch)],
               !.pc = "PARTIALS_COLLECTED"])

SessionPartialSign(k) ==
    /\ pc = "sessions" /\ sessions[k].pc = "CHALLENGE_COMPUTED"
    /\ LET s == sessions[k]
       IN  SessionMoves(k, [s EXCEPT
               !.partials = [j \in 1 .. Len(s.signers) |->
                                partial_sign(s.signers[j], s.nonce_pairs[j].r_i,
                                             Unwrap(s.c))],
               !.pc = "PARTIALS_COLLECTED"])

SessionFinalize(k) ==
    /\ pc = "sessions" /\ sessions[k].pc = "PARTIALS_COLLECTED"
    /\ LET s == sessions[k]
           sig == finalize_signature_lagrange(s.partials, Unwrap(s.R))
       IN  SessionMoves(k, [s EXCEPT
               !.signature = sig,
               !.pc = IF IsSome(sig) THEN "FINALIZED" ELSE "panicked"])

SessionVerify(k) ==
    /\ pc = "sessions" /\ sessions[k].pc = "FINALIZED"
    /\ LET s == sessions[k]
           v == verify(Unwrap(s.signature), s.msg, keygen_output.public_key)
       IN  SessionMoves(k, [s EXCEPT
               !.verdict = v,
               !.pc = IF ~IsSome(v) THEN "panicked"
                      ELSE IF Unwrap(v) THEN "VERIFIED" ELSE "REJECTED"])

\* The group has at most MaxN - 1 participants and the smallest threshold.
NextInterleaved ==
    \/ ShamirKeygen(MaxN - 1, MinT)
    \/ StartSessions
    \/ \E k \in 1 .. 2 :
         \/ SessionGenerateNonces(k)
         \/ SessionAggregateNonce(k)
         \/ SessionComputeChallenge(k)
         \/ SessionPartialSign(k)
         \/ SessionFinalize(k)
         \/ SessionVerify(k)

SpecInterleaved == Init /\ [][NextInterleaved]_vars

\* Two sessions of a group of up to MaxN participants with threshold MinT.
NextTwoSessions ==
    \/ ShamirKeygen(MaxN, MinT)
    \/ FirstSession
    \/ SecondSession

SpecTwoSessions == Init /\ [][NextTwoSessions]_vars

\* ------------------------------------------------------------ conversions

\* util.rs, test_scalar_valid_roundtrip: a scalar is written and read back.
ScalarRoundtrip ==
    /\ hex.step = "init"
    /\ \E nonce \in Scalars :
         hex' = [step |-> "scalar_roundtrip", value |-> nonce,
                 text |-> scalar_to_hex(nonce),
                 decoded |-> hex_to_scalar(scalar_to_hex(nonce))]
    /\ UNCHANGED <<pc, keyVars, sessionVars, aggVars, vss, lag, cli, prev, reuse,
                   sessions>>

\* util.rs, test_pp_valid_roundtrip: a point is written and read back.
PpRoundtrip ==
    /\ hex.step = "init"
    /\ \E point \in Points :
         hex' = [step |-> "pp_roundtrip", value |-> point,
                 text |-> pp_to_hex(point),
                 decoded |-> hex_to_pp(pp_to_hex(point))]
    /\ UNCHANGED <<pc, keyVars, sessionVars, aggVars, vss, lag, cli, prev, reuse,
                   sessions>>

\* hex_to_scalar on any text of up to one byte more than a scalar.
HexToScalar ==
    /\ hex.step = "init"
    /\ \E text \in UNION {[1 .. l -> TextChars] : l \in 0 .. (2 * ScalarLen + 2)} :
         hex' = [step |-> "hex_to_scalar", text |-> text,
                 decoded |-> hex_to_scalar(text)]
    /\ UNCHANGED <<pc, keyVars, sessionVars, aggVars, vss, lag, cli, prev, reuse,
                   sessions>>

\* hex_to_pp on any text.
HexToPp ==
    /\ hex.step = "init"
    /\ \E text \in Texts :
         hex' = [step |-> "hex_to_pp", text |-> text,
                 decoded |-> hex_to_pp(text)]
    /\ UNCHANGED <<pc, keyVars, sessionVars, aggVars, vss, lag, cli, prev, reuse,
                   sessions>>

NextHex ==
    \/ ScalarRoundtrip
    \/ PpRoundtrip
    \/ HexToScalar
    \/ HexToPp

SpecHex == Init /\ [][NextHex]_vars

\* ------------------------------------------------------------ command line

\* The texts given as arguments: the encodings of scalars and points, and
\* texts that are neither.
ArgTexts ==
    {<<"0", "0">>, <<"0", "3">>, <<"0", "2", "0", "1">>, <<"0", "3", "0", "2">>,
     <<"0">>, <<"1", "0">>, <<"g", "g">>}

\* The outcome of a run: the exit status and the two output streams.
Success(lines) == [exit |-> "success", stdout |-> lines, stderr |-> <<>>]
PanicExit(message) == [exit |-> "panic", stdout |-> <<>>, stderr |-> message]
\* Result::unwrap on Err(e): the panic message quotes e (its back quotes are
\* left out).
UnwrapErr(r) ==
    PanicExit(<<"called Result::unwrap() on an Err value: ">> \o r.err)
\* Option::unwrap on None.
UnwrapNone == PanicExit(<<"called Option::unwrap() on a None value">>)
Line(label, text) == [label |-> label, text |-> text]

\* main, Commands::Keygen without --output: shamir_keygen(num_shares,
\* threshold) with the polynomial p, then the shares, the public key and the
\* commitments are printed.
main_keygen(t, n, p) ==
    IF ~(t >= 2 /\ t <= n)
    THEN PanicExit(<<"assertion failed: t >= 2 && t <= n">>)
    ELSE LET out == KeygenOutput(n, p)
             shares == [k \in 1 .. 4 * n |->
                 LET part == out.participants[((k - 1) \div 4) + 1]
                 IN  CASE k % 4 = 1 ->
                            [label |-> "[Participant ID:]", index |-> (k - 1) \div 4]
                       [] k % 4 = 2 -> Line("x_i = ", scalar_to_hex(part.x_i))
                       [] k % 4 = 3 -> Line("X_i = ", pp_to_hex(part.X_i))
                       [] OTHER -> Line("", <<>>)]
             coms == [k \in 1 .. Len(out.commitments) |->
                         [label |-> "Commitment  = ", index |-> k - 1,
                          text |-> pp_to_hex(out.commitments[k])]]
         IN  Success(shares \o <<Line("Public key X = ", pp_to_hex(out.public_key))>>
                            \o coms)

\* Mutant: a challenge that does not decode is taken as zero
\* (unwrap_or_default).
main_sign_default(challange, share, id, nonce) ==
    LET sh == hex_to_scalar(share)
        no == hex_to_scalar(nonce)
        ch == hex_to_scalar(challange)
    IN  IF ~sh.ok THEN UnwrapErr(sh)
        ELSE IF ~no.ok THEN UnwrapErr(no)
        ELSE Success(<<Line("Signature: ",
                 scalar_to_hex(partial_sign(Participant(id, sh.val), no.val,
                                            IF ch.ok THEN ch.val ELSE ZERO).s_i))>>)

\* main, SchnorrCommands::Sign: share, nonce and challenge are decoded in
\* this order, each with unwrap.
main_sign(challange, share, id, nonce) ==
    LET sh == hex_to_scalar(share)
        no == hex_to_scalar(nonce)
        ch == hex_to_scalar(challange)
    IN  IF ~sh.ok THEN UnwrapErr(sh)
        ELSE IF ~no.ok THEN UnwrapErr(no)
        ELSE IF ~ch.ok THEN UnwrapErr(ch)
        ELSE Success(<<Line("Signature: ",
                 scalar_to_hex(partial_sign(Participant(id, sh.val), no.val, ch.val).s_i))>>)

\* main, NonceCommands::Generate with the nonce r that generate_nonce drew.
main_nonce_generate(r) ==
    Success(<<Line("r(nonce): ", scalar_to_hex(r)),
              Line("R(G * r): ", pp_to_hex(compute_nonce_point(r)))>>)

\* main, NonceCommands::Verify: the error of the decoder is printed.
main_nonce_verify(nonce) ==
    LET r == hex_to_scalar(nonce)
    IN  IF r.ok THEN Success(<<Line("Nonce is valid", <<>>)>>)
        ELSE Success(<<[label |-> "Error: ", message |-> r.err]>>)

\* The index of the first decoding that failed, 0 when none did.
FirstFailed(results) ==
    LET bad == {j \in 1 .. Len(results) : ~results[j].ok}
    IN  IF bad = {} THEN 0 ELSE CHOOSE i \in bad : \A j \in bad : i <= j
Min(a, b) == IF a <= b THEN a ELSE b

\* main, SchnorrCommands::Verify: signature, public key and nonce point are
\* decoded in this order, each with unwrap.
main_verify(message, sig_text, public_key, nonce) ==
    LET sg == hex_to_scalar(sig_text)
        pk == hex_to_pp(public_key)
        Rp == hex_to_pp(nonce)
    IN  IF ~sg.ok THEN UnwrapErr(sg)
        ELSE IF ~pk.ok THEN UnwrapErr(pk)
        ELSE IF ~Rp.ok THEN UnwrapErr(Rp)
        ELSE LET v == verify([R |-> Rp.val, s |-> sg.val], message, pk.val)
             IN  IF ~IsSome(v) THEN UnwrapNone
                 ELSE IF Unwrap(v) THEN Success(<<Line("Signature is valid", <<>>)>>)
                 ELSE Success(<<Line("Signature is invalid", <<>>)>>)

\* main, SchnorrCommands::Challenge: the nonce points zipped with the ids are
\* decoded, then aggregated over all ids, then the public key is decoded.
main_challenge(message, id_list, nonces, public_key) ==
    LET k == Min(Len(id_list), Len(nonces))
        dec == [j \in 1 .. k |-> hex_to_pp(nonces[j])]
    IN  IF FirstFailed(dec) # 0 THEN UnwrapErr(dec[FirstFailed(dec)])
        ELSE LET Rp == aggregate_nonce([j \in 1 .. k |-> <<id_list[j], dec[j].val>>],
                                       id_list)
                 pk == hex_to_pp(public_key)
             IN  IF ~IsSome(Rp) THEN UnwrapNone
                 ELSE IF ~pk.ok THEN UnwrapErr(pk)
                 ELSE LET ch == compute_challenge(Unwrap(Rp), pk.val, message)
                      IN  IF ~IsSome(ch) THEN UnwrapNone
                          ELSE Success(<<Line("Challenge: ", scalar_to_hex(Unwrap(ch)))>>)

\* main, SchnorrCommands::Combine: the nonce point is decoded, then the
\* partial signatures zipped with the ids.
main_combine(id_list, signatures, nonce) ==
    LET Rp == hex_to_pp(nonce)
        k == Min(Len(id_list), Len(signatures))
        dec == [j \in 1 .. k |-> hex_to_scalar(signatures[j])]
    IN  IF ~Rp.ok THEN UnwrapErr(Rp)
        ELSE IF FirstFailed(dec) # 0 THEN UnwrapErr(dec[FirstFailed(dec)])
        ELSE LET sig == finalize_signature_lagrange(
                            [j \in 1 .. k |-> [id |-> id_list[j], s_i |-> dec[j].val]],
                            Rp.val)
             IN  IF ~IsSome(sig) THEN UnwrapNone
                 ELSE Success(<<Line("Interpolated signature: ",
                                     scalar_to_hex(Unwrap(sig).s))>>)

\* The lists of one or two of the elements of S.
Lists(S) == [1 .. 1 -> S] \cup [1 .. 2 -> S]

\* The program ran command with args and ended with outcome o.
Exited(command, args, o) ==
    /\ cli' = [step |-> "exited", command |-> command, args |-> args,
               exit |-> o.exit, stdout |-> o.stdout, stderr |-> o.stderr]
    /\ UNCHANGED <<pc, keyVars, sessionVars, aggVars, vss, lag, hex, prev, reuse,
                   sessions>>

\* The run is recorded with its arguments and with the coefficients that
\* random_polynomial drew in it.
CliKeygen ==
    /\ cli.step = "init"
    /\ \E n \in 0 .. MaxN, t \in 0 .. MaxT, secret \in Scalars :
           \E p \in IF t >= 2 /\ t <= n THEN random_polynomial(secret, t) ELSE {<<>>} :
               Exited("keygen", [threshold |-> t, num_shares |-> n, poly |-> p],
                      main_keygen(t, n, p))

CliSign ==
    /\ cli.step = "init"
    /\ \E challange \in ArgTexts, share \in ArgTexts, id \in 0 .. MaxN,
          nonce \in ArgTexts :
           Exited("schnorr sign",
                  [challange |-> challange, share |-> share, id |-> id, nonce |-> nonce],
                  main_sign(challange, share, id, nonce))

CliNonceGenerate ==
    /\ cli.step = "init"
    /\ \E r \in Scalars :
           Exited("schnorr nonce generate", [r |-> r], main_nonce_generate(r))

CliNonceVerify ==
    /\ cli.step = "init"
    /\ \E nonce \in ArgTexts :
           Exited("schnorr nonce verify", [nonce |-> nonce], main_nonce_verify(nonce))

CliVerify ==
    /\ cli.step = "init"
    /\ \E message \in Msgs, sig_text \in ArgTexts, public_key \in ArgTexts,
          nonce \in ArgTexts :
           Exited("schnorr verify",
                  [message |-> message, signature |-> sig_text,
                   public_key |-> public_key, nonce |-> nonce],
                  main_verify(message, sig_text, public_key, nonce))

CliChallenge ==
    /\ cli.step = "init"
    /\ \E message \in Msgs, id_list \in Lists(0 .. MaxN), nonces \in Lists(ArgTexts),
          public_key \in ArgTexts :
           Exited("schnorr challenge",
                  [message |-> message, ids |-> id_list, nonces |-> nonces,
                   public_key |-> public_key],
                  main_challenge(message, id_list, nonces, public_key))

CliCombine ==
    /\ cli.step = "init"
    /\ \E id_list \in Lists(0 .. MaxN), signatures \in Lists(ArgTexts),
          nonce \in ArgTexts :
           Exited("schnorr combine",
                  [ids |-> id_list, signatures |-> signatures, nonce |-> nonce],
                  main_combine(id_list, signatures, nonce))

NextCli ==
    \/ CliKeygen
    \/ CliSign
    \/ CliNonceGenerate
    \/ CliNonceVerify
    \/ CliVerify
    \/ CliChallenge
    \/ CliCombine

SpecCli == Init /\ [][NextCli]_vars

\* ------------------------------------------------------------ signing calls
\* partial_sign is a public function of its three arguments: a caller holding
\* a share calls it any number of times, with any nonce and any challenge.
\* The calls made for one participant are recorded in the order made.

\* threshold.rs, Participant::from_secret: the participant of a share.
NewSigner ==
    /\ reuse.step = "init"
    /\ \E id \in 1 .. MaxId, x_i \in Scalars :
         reuse' = [step |-> "signing", participant |-> Participant(id, x_i),
                   calls |-> <<>>]
    /\ UNCHANGED <<pc, keyVars, sessionVars, aggVars, vss, lag, hex, cli, prev,
                   sessions>>

\* threshold.rs, partial_sign: one call, which reads nothing but its arguments.
PartialSignCall ==
    /\ reuse.step = "signing"
    /\ Len(reuse.calls) < MaxCalls
    /\ \E r_i \in Scalars, ch \in Scalars :
         reuse' = [reuse EXCEPT !.calls = Append(@,
                      [r_i |-> r_i, c |-> ch,
                       partial |-> partial_sign(reuse.participant, r_i, ch)])]
    /\ UNCHANGED <<pc, keyVars, sessionVars, aggVars, vss, lag, hex, cli, prev,
                   sessions>>

NextSigning == NewSigner \/ PartialSignCall

SpecSigning == Init /\ [][NextSigning]_vars

\* ------------------------------------------------------------ properties

SignerIds == Map(IdOf, signers)
\* Verify has run on the finalized signature (it returned or it panicked).
VerifyRan == pc \in {"VERIFIED", "REJECTED"} \/ (pc = "panicked" /\ IsSome(signature))
\* The session used one id list for aggregate_nonce and for the partials.
SameIdSet == Range(ids) = Range(SignerIds)

\* C1: a session run by exactly t of the keygen participants, with one
\* id-set for nonce aggregation and finalization, yields a signature that
\* verify accepts for the session's message and the keygen public key.
C1_ExactlyTSignersVerify ==
    (VerifyRan /\ Len(signers) = threshold /\ SameIdSet /\ vmsg = msg)
        => pc = "VERIFIED"

\* A session of exactly t signers with a nonzero challenge, nonzero nonces and
\* a polynomial of full degree was verified.
C1_Witness ==
    /\ pc = "VERIFIED" /\ vmsg = msg
    /\ Len(signers) = threshold
    /\ poly[Len(poly)] # 0
    /\ Unwrap(c) # 0
    /\ \A j \in 1 .. Len(nonce_pairs) : nonce_pairs[j].r_i # 0

\* C2 as stated: a session run by fewer than t participants never yields a
\* signature that verify accepts against the group public key (stated here
\* for the sessions with a nonzero secret and a nonzero challenge).
C2_FewerThanTNeverVerify ==
    (VerifyRan /\ Len(signers) < threshold /\ SameIdSet /\ vmsg = msg
        /\ poly[1] # 0 /\ Unwrap(c) # 0)
        => pc # "VERIFIED"

\* C2 amended: a session run by fewer than t participants is accepted
\* exactly when the challenge is zero or the shares of the signers
\* interpolate to the secret; in every other case verify rejects.
C2_FewerThanTVerifyIffDegenerate ==
    (VerifyRan /\ Len(signers) < threshold /\ SameIdSet /\ vmsg = msg)
        => /\ pc \in {"VERIFIED", "REJECTED"}
           /\ (pc = "VERIFIED") <=>
                  SMul(Unwrap(c), SSub(combined_x(signers, SignerIds), poly[1])) = 0

\* A single signer of a 2-of-n group whose polynomial has full degree was
\* rejected under a nonzero challenge.
C2_Witness ==
    /\ pc = "REJECTED" /\ vmsg = msg
    /\ Len(signers) = 1 /\ threshold = 2
    /\ poly[2] # 0
    /\ Unwrap(c) # 0

\* The challenge verify recomputes for the message it is given.
VerifyChallenge ==
    compute_challenge(Unwrap(signature).R, keygen_output.public_key, vmsg)

\* C4 as stated: the signature of a correct threshold session for message M
\* is rejected by verify for every other message M' (stated here as: verify
\* does not accept it, which a rejection implies).
C4_OtherMessageRejected ==
    (VerifyRan /\ Len(signers) >= threshold /\ SameIdSet /\ vmsg # msg)
        => pc # "VERIFIED"

\* C4 amended: for another message M', verify aborts when the digest of M'
\* is no canonical scalar, accepts when the challenge of M' times the secret
\* equals the challenge of M times the secret (equal challenges, or an
\* identity public key), and rejects in every other case.
C4_OtherMessageAcceptedIffCollision ==
    (VerifyRan /\ Len(signers) >= threshold /\ SameIdSet /\ vmsg # msg)
        => /\ (pc = "panicked") <=> ~IsSome(VerifyChallenge)
           /\ (pc = "VERIFIED") <=>
                  /\ IsSome(VerifyChallenge)
                  /\ SMul(SSub(Unwrap(VerifyChallenge), Unwrap(c)), poly[1]) = 0

\* The signature of a session of t signers was rejected for another message,
\* and the same signature is accepted for its own.
C4_Witness ==
    /\ pc = "REJECTED" /\ vmsg # msg
    /\ Len(signers) = threshold
    /\ poly[1] # 0
    /\ verify(Unwrap(signature), msg, keygen_output.public_key) = Some(TRUE)

\* C8: aggregate_public_key over the public shares of at least t of the
\* keygen participants, in any order, returns the keygen public key.
C8_AggregatePublicKeyIsPublicKey ==
    Len(public_keys) >= threshold /\ pc # "init"
        => rev_public_key = Some(keygen_output.public_key)

\* The public key was aggregated from exactly t shares given out of order,
\* for a polynomial of full degree and a nonzero secret.
C8_Witness ==
    /\ pc = "aggregated"
    /\ Len(public_keys) = threshold
    /\ public_keys[1][1] > public_keys[2][1]
    /\ poly[1] # 0 /\ poly[Len(poly)] # 0

\* C10: finalize_signature_lagrange over the partials s_i = r_i + c*x_i
\* returns the R it was given and s = (sum of lambda_i*r_i) + c*(sum of
\* lambda_i*x_i), the signature of a single signer holding the interpolated
\* key and nonce.
C10_FinalizeEqualsManualSignature ==
    pc = "FINALIZED"
        => /\ Unwrap(signature).R = Unwrap(R)
           /\ Unwrap(signature).s =
                  SAdd(combined_r(nonce_pairs, SignerIds),
                       SMul(Unwrap(c), combined_x(signers, SignerIds)))

\* A signature was finalized from three partials with a nonzero challenge and
\* distinct nonzero nonces.
C10_Witness ==
    /\ pc = "FINALIZED"
    /\ Len(partials) = 3
    /\ Unwrap(c) # 0
    /\ nonce_pairs[1].r_i # 0
    /\ nonce_pairs[1].r_i # nonce_pairs[2].r_i
    /\ Unwrap(signature).s # 0

\* The session has handed an id list to aggregate_nonce.
Aggregated == pc \notin {"init", "keygen", "INIT", "NONCES_GENERATED"}

\* C3 as stated: when the id list of aggregate_nonce differs as a set from
\* the ids of the partials, the finalized signature does not verify against
\* the group public key (stated here for the sessions of at least t signers
\* with a polynomial of full degree, a nonzero secret and a nonzero
\* challenge).
C3_MismatchNeverVerifies ==
    (VerifyRan /\ ~SameIdSet /\ poly[1] # 0 /\ Unwrap(c) # 0
        /\ Len(signers) >= threshold /\ poly[Len(poly)] # 0)
        => pc # "VERIFIED"

\* C3 amended: with mismatched id-sets neither aggregate_nonce nor
\* finalize_signature_lagrange reports an error or panics, and verify accepts
\* the signature exactly when
\*   (sum lambda_i(P)*r_i - sum lambda_i(L)*r_i) + c*(sum lambda_i(P)*x_i - secret)
\* is zero, L the id list of aggregate_nonce and P the ids of the partials; it
\* rejects it in every other case.
C3_MismatchVerifiesIffDegenerate ==
    (Aggregated /\ ~SameIdSet)
        => /\ IsSome(R)
           /\ pc = "panicked" => ~IsSome(c)
           /\ VerifyRan =>
                ((pc = "VERIFIED") <=>
                    SAdd(SSub(combined_r(nonce_pairs, SignerIds),
                              combined_r(nonce_pairs, ids)),
                         SMul(Unwrap(c),
                              SSub(combined_x(signers, SignerIds), poly[1]))) = 0)

\* Two signers finalized a signature whose nonce was aggregated over the id
\* list of one of them, and verify rejected it.
C3_Witness ==
    /\ pc = "REJECTED"
    /\ Len(signers) = 2 /\ threshold = 2
    /\ Len(ids) = 1
    /\ IsSome(signature)
    /\ poly[1] # 0 /\ Unwrap(c) # 0

\* C5: the share of every participant of shamir_keygen, and the share
\* eval_polynomial(coeffs, id) of any coefficient list at any id, passes the
\* Feldman check against the commitments G*coeffs[j].
C5_ShareVerifies ==
    (vss.step = "checked" /\ vss.tamper = "none") => vss.is_valid

\* The share of the last participant of a polynomial of full degree, a
\* nonzero share, was checked.
C5_Witness ==
    /\ vss.step = "checked" /\ vss.tamper = "none"
    /\ vss.id = Len(keygen_output.participants)
    /\ vss.x_i = keygen_output.participants[vss.id].x_i
    /\ vss.commitments = keygen_output.commitments
    /\ vss.x_i # 0
    /\ poly[Len(poly)] # 0
    /\ vss.is_valid

\* C6 as stated: for a share x_i = f(id) and every id' different from id,
\* the Feldman check of (id', x_i) returns false (stated here for the
\* polynomials of full degree).
C6_WrongIdRejected ==
    (vss.step = "checked" /\ vss.tamper = "id" /\ poly[Len(poly)] # 0)
        => ~vss.is_valid

\* C6 amended: the Feldman check of (id', x_i), x_i = f(id) and id' # id,
\* returns false exactly when f(id') # f(id); it returns true for the ids at
\* which the polynomial takes the value of the share.
C6_WrongIdRejectedIffValueDiffers ==
    (vss.step = "checked" /\ vss.tamper = "id")
        => (vss.is_valid <=> eval_polynomial(poly, vss.id) = eval_polynomial(poly, vss.share_id))

\* The share of a participant of a polynomial of full degree was rejected
\* under the id of another participant.
C6_Witness ==
    /\ vss.step = "checked" /\ vss.tamper = "id"
    /\ vss.share_id \in 1 .. Len(keygen_output.participants)
    /\ vss.id \in 1 .. Len(keygen_output.participants)
    /\ vss.x_i = keygen_output.participants[vss.share_id].x_i
    /\ Len(poly) = 3 /\ poly[3] # 0
    /\ ~vss.is_valid

\* C7 as stated: for a share that verifies, replacing a single commitment by
\* a different point, or using the commitments of a different polynomial
\* with the same secret, makes the Feldman check return false (stated here
\* for the shares with a nonzero id).
C7_TamperedCommitmentsRejected ==
    (vss.step = "checked" /\ vss.tamper \in {"commitment", "coefs"}
        /\ ScalarFrom(vss.id) # 0)
        => ~vss.is_valid

\* C7 amended: replacing a single commitment C_j by a different point makes
\* the check return false, unless the id is zero and j > 0 (C_j then has the
\* weight id^j = 0); the commitments of a different polynomial g with the
\* same secret make it return false exactly when g(id) # f(id).
C7_TamperedCommitmentsRejectedIffValueDiffers ==
    /\ (vss.step = "checked" /\ vss.tamper = "commitment")
          => (vss.is_valid <=> (ScalarFrom(vss.id) = 0 /\ vss.replaced > 1))
    /\ (vss.step = "checked" /\ vss.tamper = "coefs")
          => (vss.is_valid <=>
                eval_polynomial(vss.wrong_coefs, vss.id) = eval_polynomial(poly, vss.id))

\* A share with a nonzero id was rejected after its last commitment was
\* replaced.
C7_Witness ==
    /\ vss.step = "checked" /\ vss.tamper = "commitment"
    /\ vss.id # 0
    /\ vss.replaced = Len(vss.commitments) /\ vss.replaced = 3
    /\ ~vss.is_valid

\* C9: for a polynomial f of degree at most t-1 and at least t distinct
\* nonzero ids, the sum of lagrange_coefficient(i, S) * eval_polynomial(f, i)
\* is f(0), the constant coefficient.
C9_LagrangeReconstructsSecret ==
    (lag.step = "reconstructed" /\ Len(lag.ids) >= Len(lag.coeffs))
        => lag.result = lag.coeffs[1]

\* A polynomial of degree 2 with a nonzero constant was reconstructed from
\* three samples given out of order.
C9_Witness ==
    /\ lag.step = "reconstructed"
    /\ Len(lag.coeffs) = 3 /\ Len(lag.ids) = 3
    /\ lag.coeffs[3] # 0 /\ lag.coeffs[1] # 0
    /\ lag.ids[1] > lag.ids[2]
    /\ lag.result = lag.coeffs[1]

\* C14: a scalar written by scalar_to_hex is read back by hex_to_scalar as
\* Ok of the same scalar, and a point written by pp_to_hex is read back by
\* hex_to_pp as Ok of the same point.
C14_HexRoundTrip ==
    hex.step \in {"scalar_roundtrip", "pp_roundtrip"}
        => hex.decoded = Ok(hex.value)

\* A point other than the identity whose y is odd was written and read back.
C14_Witness ==
    /\ hex.step = "pp_roundtrip"
    /\ hex.value # IDENTITY /\ PointY(hex.value) % 2 = 1
    /\ Len(hex.text) = 2 * (1 + ScalarLen)
    /\ hex.decoded.ok

\* The texts that are the encoding of a scalar.
ScalarTexts == {hex_encode(ToBytes(x, ScalarLen)) : x \in Scalars}
\* The texts that are an encoding of a point: the identity, compressed,
\* uncompressed, and compact for the points whose y is even.
PointTexts ==
    {hex_encode(to_encoded_point(P, b)) : P \in Points, b \in BOOLEAN}
        \cup {hex_encode(<<5>> \o ToBytes(PointX(P), ScalarLen)) :
                 P \in {P1 \in Points \ {IDENTITY} : PointY(P1) % 2 = 0}}
\* The text has a character that is no hex digit.
NonHex(text) ==
    \E k \in 1 .. Len(text) :
        /\ \A v \in 1 .. 16 : HexDigits[v] # text[k]
        /\ \A v \in 1 .. 6 : UpperDigits[v] # text[k]

\* C15: hex_to_scalar and hex_to_pp never abort, and return Err for every
\* text that is not the encoding of a scalar, respectively of a point: for
\* text that is not hex, for a scalar of another length than ScalarLen bytes,
\* and for bytes that are no scalar below the order or no point.
C15_MalformedIsErr ==
    /\ hex.step \in {"hex_to_scalar", "hex_to_pp"} => ~IsPanic(hex.decoded)
    /\ hex.step = "hex_to_scalar" =>
         /\ hex.text \notin ScalarTexts => IsErr(hex.decoded)
         /\ NonHex(hex.text) \/ Len(hex.text) % 2 = 1
                => IsErr(hex.decoded) /\ hex.decoded.err[1] = "Invalid hex string: "
         /\ ~NonHex(hex.text) /\ Len(hex.text) % 2 = 0
                /\ Len(hex.text) # 2 * ScalarLen
                => hex.decoded = Err(<<"Invalid scalar length">>)
         /\ ~NonHex(hex.text) /\ Len(hex.text) = 2 * ScalarLen
                /\ hex.text \notin ScalarTexts
                => hex.decoded = Err(<<"Invalid scalar">>)
    /\ hex.step = "hex_to_pp" =>
         /\ hex.text \notin PointTexts => IsErr(hex.decoded)
         /\ NonHex(hex.text) \/ Len(hex.text) % 2 = 1
                => IsErr(hex.decoded) /\ hex.decoded.err[1] = "Invalid hex string: "

\* Bytes of the width of an uncompressed point that are no point were
\* refused by hex_to_pp.
C15_Witness ==
    /\ hex.step = "hex_to_pp"
    /\ Len(hex.text) = 2 * (1 + 2 * ScalarLen)
    /\ hex.decoded = Err(<<"Invalid affine point">>)

\* C11 as stated: a key generation with t < 2 or t > n does not abort the
\* process and gives no keygen output: the caller gets an error back (stated
\* here for the groups of at least two).
C11_InvalidThresholdIsError ==
    (cli.step = "exited" /\ cli.command = "keygen" /\ cli.args.num_shares >= 2
        /\ ~(cli.args.threshold >= 2 /\ cli.args.threshold <= cli.args.num_shares))
        => cli.exit # "panic" /\ cli.stdout = <<>>

\* The run met a text that does not decode: the panic of an unwrap of the
\* decoder's Err, or the error that nonce verify prints.
DecodeErrorMet ==
    \/ /\ cli.exit = "panic" /\ Len(cli.stderr) > 0
       /\ cli.stderr[1] = "called Result::unwrap() on an Err value: "
    \/ /\ cli.command = "schnorr nonce verify"
       /\ cli.stdout[1].label = "Error: "

\* C16 as stated: no command of the program exits abnormally on a text that
\* does not decode.
C16_DecodeErrorsNeverAbort ==
    (cli.step = "exited" /\ DecodeErrorMet) => cli.exit = "success"

\* The challenge given to schnorr sign is hex of another length than that of
\* a scalar.
ChallengeOfWrongLength ==
    /\ cli.step = "exited" /\ cli.command = "schnorr sign"
    /\ from_hex(cli.args.challange).ok
    /\ Len(from_hex(cli.args.challange).val) # ScalarLen
\* The error stream quotes "Invalid scalar length".
ReportsInvalidScalarLength ==
    \E k \in 1 .. Len(cli.stderr) : cli.stderr[k] = "Invalid scalar length"

\* C17 as stated: schnorr sign given a challenge whose decoded length is not
\* that of a scalar exits unsuccessfully, reports "Invalid scalar length" on
\* the error stream and prints no signature.
C17_SignInvalidChallengeLength ==
    ChallengeOfWrongLength
        => /\ cli.exit # "success"
           /\ ReportsInvalidScalarLength
           /\ cli.stdout = <<>>

\* C17 amended: the run exits unsuccessfully and prints no signature; it
\* reports "Invalid scalar length" when share and nonce, which are decoded
\* before the challenge, decode to scalars.
C17_SignInvalidChallengeLengthAfterValidShareAndNonce ==
    ChallengeOfWrongLength
        => /\ cli.exit # "success"
           /\ cli.stdout = <<>>
           /\ hex_to_scalar(cli.args.share).ok /\ hex_to_scalar(cli.args.nonce).ok
                  => ReportsInvalidScalarLength

\* schnorr sign ran with a share and a nonce that decode and a challenge of
\* two bytes.
C17_Witness ==
    /\ ChallengeOfWrongLength
    /\ hex_to_scalar(cli.args.share).ok /\ hex_to_scalar(cli.args.nonce).ok
    /\ Len(cli.args.challange) = 4 * ScalarLen
    /\ cli.exit = "panic"

\* The number of times id occurs in the list.
Occurrences(id, id_list) == Cardinality({j \in 1 .. Len(id_list) : id_list[j] = id})

\* C12 as stated: lagrange_coefficient(id_i, ids) gives an explicit error
\* when ids holds id_i more than once (stated here for the lists of three
\* ids and a nonzero id_i), and finalize_signature_lagrange gives an error
\* instead of a signature when two partials carry the same id.
C12_DuplicateIdIsError ==
    /\ (lag.step = "coefficient" /\ Occurrences(lag.id_i, lag.ids) >= 2
           /\ lag.id_i >= 1 /\ Len(lag.ids) = 3)
           => IsErr(lag.result)
    /\ (lag.step = "finalized"
           /\ \E id \in 0 .. MaxId : Occurrences(id, lag.ids) >= 2)
           => IsErr(lag.result)

\* C13 as stated: verify returns accept or reject for every signature,
\* message and public key; neither it nor compute_challenge aborts.
C13_VerifyAlwaysDecides ==
    VerifyRan => pc \in {"VERIFIED", "REJECTED"}

\* Two sessions of t signers each were finalized for the same message.
TwoSessionsDone == pc = "SECOND_FINALIZED" /\ prev.step = "first"

\* C18 as stated: the signatures of two sessions over different t-sized
\* subsets of one group, for the same message and with nonces of their own,
\* differ in R and in s (stated here for a nonzero secret and nonzero
\* challenges).
C18_SubsetSignaturesDiffer ==
    (TwoSessionsDone /\ poly[1] # 0 /\ prev.c # 0 /\ Unwrap(c) # 0)
        => /\ Unwrap(signature).R # prev.signature.R
           /\ Unwrap(signature).s # prev.signature.s

\* C18 amended: both signatures verify for the message and the group key;
\* they differ in R exactly when the nonces of the two sessions interpolate
\* to different values r and r', and in s exactly when r + c*x and r' + c'*x
\* differ; with r = r' the two signatures are equal.
C18_SubsetSignaturesDifferIffNoncesDo ==
    TwoSessionsDone =>
        LET r1 == prev.r
            r2 == combined_r(nonce_pairs, ids)
            x == poly[1]
        IN  /\ verify(prev.signature, msg, keygen_output.public_key) = Some(TRUE)
            /\ verify(Unwrap(signature), msg, keygen_output.public_key) = Some(TRUE)
            /\ (Unwrap(signature).R # prev.signature.R) <=> (r1 # r2)
            /\ (Unwrap(signature).s # prev.signature.s)
                   <=> (SAdd(r1, SMul(prev.c, x)) # SAdd(r2, SMul(Unwrap(c), x)))
            /\ r1 = r2 => Unwrap(signature) = prev.signature

\* Two sessions over different subsets, with a nonzero secret and nonzero
\* challenges, gave signatures that differ in R and in s.
C18_Witness ==
    /\ TwoSessionsDone
    /\ Range(ids) # Range(prev.ids)
    /\ poly[1] # 0 /\ prev.c # 0 /\ Unwrap(c) # 0
    /\ Unwrap(signature).R # prev.signature.R
    /\ Unwrap(signature).s # prev.signature.s

\* The calls of partial_sign made so far for the participant.
SigningCalls == IF reuse.step = "signing" THEN reuse.calls ELSE <<>>

\* C19: across the calls of partial_sign made for one participant, a nonce
\* r_i is used under one challenge only: no two partial signatures come from
\* the same r_i and two different challenges.
C19_NonceUsedUnderOneChallenge ==
    \A i, j \in 1 .. Len(SigningCalls) :
        SigningCalls[i].r_i = SigningCalls[j].r_i
            => SigningCalls[i].c = SigningCalls[j].c

\* C20: two partial signatures s and s' of one participant from the same
\* nonce under distinct challenges c and c' give the share:
\* x_i = (s - s') * (c - c')^-1.
C20_ReuseRecoversShare ==
    \A i, j \in 1 .. Len(SigningCalls) :
        (/\ SigningCalls[i].r_i = SigningCalls[j].r_i
         /\ SigningCalls[i].c # SigningCalls[j].c)
            => reuse.participant.x_i
                   = SMul(SSub(SigningCalls[i].partial.s_i, SigningCalls[j].partial.s_i),
                          Unwrap(Invert(SSub(SigningCalls[i].c, SigningCalls[j].c))))

\* One nonce was used under two distinct challenges by a participant whose
\* share is neither 0 nor 1, and the two partial signatures differ.
C20_Witness ==
    /\ Len(SigningCalls) = 2
    /\ SigningCalls[1].r_i = SigningCalls[2].r_i
    /\ SigningCalls[1].c # SigningCalls[2].c
    /\ reuse.participant.x_i > 1
    /\ SigningCalls[1].partial.s_i # SigningCalls[2].partial.s_i
    /\ SigningCalls[1].partial.id = reuse.participant.id

\* The value at x of the polynomial with coefficients a_0 .. a_(t-1), as the
\* sum of a_j * x^j, from index j on.
RECURSIVE PowerSum(_, _, _)
PowerSum(coeffs, x, j) ==
    IF j > Len(coeffs) THEN 0
    ELSE (coeffs[j] * Pow(x, j - 1) + PowerSum(coeffs, x, j + 1)) % Q

\* C21: shamir_keygen(n, t) returns n participants with ids 1 .. n in this
\* order, each with x_i = f(id) and X_i = G * x_i, t commitments with
\* commitments[j] = G * a_j, and public_key = G * a_0; Participant::from_secret
\* sets X_i = G * x_i.
C21_KeygenOutputShape ==
    pc = "keygen" =>
        /\ Len(poly) = threshold
        /\ Len(keygen_output.participants) = num_shares
        /\ \A i \in 1 .. num_shares :
             /\ keygen_output.participants[i].id = i
             /\ keygen_output.participants[i].x_i = PowerSum(poly, i, 1)
             /\ keygen_output.participants[i].X_i
                    = PMul(GENERATOR, keygen_output.participants[i].x_i)
        /\ Len(keygen_output.commitments) = threshold
        /\ \A j \in 1 .. threshold :
             keygen_output.commitments[j] = PMul(GENERATOR, poly[j])
        /\ keygen_output.public_key = PMul(GENERATOR, poly[1])
        /\ \A id \in 1 .. MaxN, x_i \in Scalars :
             Participant(id, x_i)
                 = [id |-> id, x_i |-> x_i, X_i |-> PMul(GENERATOR, x_i)]

\* A key generation for the largest group and the largest threshold returned
\* shares of a polynomial with a nonzero secret and a nonzero leading
\* coefficient.
C21_Witness ==
    /\ pc = "keygen"
    /\ num_shares = MaxN /\ threshold = MaxT
    /\ poly[1] # 0 /\ poly[threshold] # 0
    /\ keygen_output.participants[num_shares].x_i # poly[1]

\* C22: finalize_signature_lagrange yields a signature only from the complete
\* set of t partials of a session: from fewer than t partials, none
\* included, it returns no signature.
C22_IncompleteSetYieldsNoSignature ==
    (pc \in {"FINALIZED", "VERIFIED", "REJECTED"} /\ Len(partials) < threshold)
        => ~IsSome(signature)

\* The states of a signing session, in their order; VERIFIED and REJECTED
\* both follow FINALIZED.
SessionOrder ==
    <<"INIT", "NONCES_GENERATED", "NONCE_AGGREGATED", "CHALLENGE_COMPUTED",
      "PARTIALS_COLLECTED", "FINALIZED">>
SessionRank(state) ==
    IF state \in {"VERIFIED", "REJECTED"} THEN Len(SessionOrder) + 1
    ELSE IF state \in Range(SessionOrder)
         THEN CHOOSE k \in 1 .. Len(SessionOrder) : SessionOrder[k] = state
         ELSE 0
SessionStates == Range(SessionOrder) \cup {"VERIFIED", "REJECTED"}

\* A step of a session leads to the next state of the order.
InSessionOrder ==
    pc \in SessionStates
        => (pc' \in SessionStates /\ SessionRank(pc') = SessionRank(pc) + 1)

\* C23: a session advances only in the order INIT, NONCES_GENERATED,
\* NONCE_AGGREGATED, CHALLENGE_COMPUTED, PARTIALS_COLLECTED, FINALIZED; from
\* FINALIZED it reaches VERIFIED or REJECTED, which are terminal; and a
\* session of at least t keygen participants over one id list ends in
\* VERIFIED.
C23_SessionRunsInOrderToVerdict ==
    /\ [][InSessionOrder]_pc
    /\ [](pc = "FINALIZED" => <>(pc \in {"VERIFIED", "REJECTED"}))
    /\ []((pc = "INIT" /\ Len(signers) >= threshold) => <>(pc = "VERIFIED"))

\* What a session of the participants chosen, with the nonces rs, for the
\* message m and the public key X computes when its calls are made one after
\* the other with nothing in between.
SessionAlone(chosen, rs, m, X) ==
    LET pairs == [j \in 1 .. Len(chosen) |->
                     [id |-> chosen[j].id, r_i |-> rs[j],
                      R_i |-> compute_nonce_point(rs[j])]]
        Rp == aggregate_nonce([j \in 1 .. Len(chosen) |->
                                  <<pairs[j].id, pairs[j].R_i>>],
                              Map(IdOf, chosen))
        ch == IF IsSome(Rp) THEN compute_challenge(Unwrap(Rp), X, m) ELSE None
        parts == IF IsSome(ch)
                 THEN [j \in 1 .. Len(chosen) |->
                          partial_sign(chosen[j], rs[j], Unwrap(ch))]
                 ELSE <<>>
        sig == IF IsSome(ch) THEN finalize_signature_lagrange(parts, Unwrap(Rp))
               ELSE None
        v == IF IsSome(sig) THEN verify(Unwrap(sig), m, X) ELSE None
    IN  [R |-> Rp, c |-> ch, partials |-> parts, signature |-> sig, verdict |-> v]

\* Session s has computed what the run alone computes, as far as it has come.
AsAlone(s) ==
    LET after(states) == s.pc \in states
    IN  IF after({"INIT"})
        THEN /\ s.nonce_pairs = <<>> /\ s.partials = <<>>
             /\ s.R = None /\ s.c = None /\ s.signature = None /\ s.verdict = None
        ELSE \A a \in {SessionAlone(s.signers, Map(r_iOf, s.nonce_pairs), s.msg,
                                    keygen_output.public_key)} :
        /\ s.R = IF after({"NONCES_GENERATED"}) THEN None ELSE a.R
        /\ s.c \in {None, a.c}
        /\ after({"CHALLENGE_COMPUTED", "PARTIALS_COLLECTED", "FINALIZED",
                  "VERIFIED", "REJECTED"}) => s.c = a.c /\ IsSome(s.c)
        /\ s.partials \in {<<>>, a.partials}
        /\ after({"PARTIALS_COLLECTED", "FINALIZED", "VERIFIED", "REJECTED"})
               => s.partials = a.partials
        /\ s.signature \in {None, a.signature}
        /\ after({"FINALIZED", "VERIFIED", "REJECTED"})
               => s.signature = a.signature /\ IsSome(s.signature)
        /\ s.verdict \in {None, a.verdict}
        /\ after({"VERIFIED", "REJECTED"}) => s.verdict = a.verdict
        /\ after({"panicked"}) => ~IsSome(a.verdict)

\* C24: two sessions of one group, each with nonces of its own, have their
\* steps taken in any order: each computes what it computes when it runs
\* alone, and the signature of each verifies against the group public key.
C24_InterleavedSessionsAsAlone ==
    pc = "sessions" =>
        \A k \in 1 .. 2 :
            /\ AsAlone(sessions[k])
            /\ sessions[k].pc # "REJECTED"
            /\ sessions[k].pc = "VERIFIED" =>
                   verify(Unwrap(sessions[k].signature), sessions[k].msg,
                          keygen_output.public_key) = Some(TRUE)

\* Both sessions were verified, for a nonzero secret, with different
\* challenges and different signatures.
C24_Witness ==
    /\ pc = "sessions"
    /\ sessions[1].pc = "VERIFIED" /\ sessions[2].pc = "VERIFIED"
    /\ poly[1] # 0
    /\ sessions[1].c # sessions[2].c
    /\ sessions[1].signature # sessions[2].signature

\* The ids of the participants whose public shares made the public key.
KeyIds == {public_keys[j][1] : j \in 1 .. Len(public_keys)}
\* A session without dealer was verified against the aggregated key.
NoDealerVerified == participants # <<>> /\ pc \in {"VERIFIED", "REJECTED"}

\* C25 as stated: a session of participants with secret keys of their own
\* verifies against aggregate_public_key of their public shares, and does
\* not verify against aggregate_public_key of another set of participants.
C25_OtherSetKeyRejected ==
    NoDealerVerified =>
        IF KeyIds = Range(ids) THEN pc = "VERIFIED" ELSE pc = "REJECTED"

\* C25 amended: against the key of another set the session verifies exactly
\* when the challenge is zero or the two sets' shares interpolate to the same
\* key.
C25_OtherSetKeyRejectedUnlessSameKey ==
    NoDealerVerified =>
        IF KeyIds = Range(ids) THEN pc = "VERIFIED"
        ELSE (pc = "VERIFIED")
                 <=> \/ Unwrap(c) = 0
                     \/ PMul(GENERATOR, combined_x(signers, ids))
                            = Unwrap(rev_public_key)

\* A session of two or more participants with a nonzero challenge was
\* rejected against the key of another set.
C25_Witness ==
    /\ NoDealerVerified
    /\ Unwrap(c) # 0
    /\ KeyIds # Range(ids)
    /\ Len(signers) >= 2
    /\ pc = "REJECTED"

\* C26: for every key generation and every subset of more than t of its
\* participants, up to all n, that uses one id list for the nonce aggregation
\* and for the finalization, the finalized signature verifies against the
\* group public key.
C26_MoreThanTSignersVerify ==
    (VerifyRan /\ Len(signers) > threshold /\ SameIdSet /\ vmsg = msg)
        => /\ pc = "VERIFIED"
           /\ verdict = Some(TRUE)

\* More than t participants signed for a nonzero secret with a nonzero
\* challenge, and the signature was verified.
C26_Witness ==
    /\ pc = "VERIFIED"
    /\ Len(signers) > threshold
    /\ SameIdSet
    /\ poly[1] # 0 /\ poly[threshold] # 0
    /\ Unwrap(c) # 0

\* The factors id_j - id_i that enter the denominator: those of the entries
\* that are not id_i.
DenominatorFactors(id_i, id_list) ==
    [j \in {k \in 1 .. Len(id_list) : id_list[k] # id_i} |->
        SSub(ScalarFrom(id_list[j]), ScalarFrom(id_i))]

\* C27: lagrange_coefficient(id_i, ids) never inverts a zero denominator:
\* for every id_i and every list of ids, with duplicates, without id_i or
\* empty, every factor id_j - id_i of the denominator is nonzero, and the
\* call returns a scalar.
C27_DenominatorNeverZero ==
    lag.step = "coefficient" =>
        /\ \A j \in DOMAIN DenominatorFactors(lag.id_i, lag.ids) :
               DenominatorFactors(lag.id_i, lag.ids)[j] # 0
        /\ LagrangeLoop(lag.id_i, lag.ids, 1, ONE, ONE)[2] # 0
        /\ lag.result.ok
        /\ lag.result.val \in Scalars

\* The call returned for a list that holds id_i twice and another id.
C27_Witness ==
    /\ lag.step = "coefficient"
    /\ Occurrences(lag.id_i, lag.ids) >= 2
    /\ \E j \in 1 .. Len(lag.ids) : lag.ids[j] # lag.id_i
    /\ lag.result.ok

\* The keygen command ran and printed its key generation.
KeygenPrinted ==
    cli.step = "exited" /\ cli.command = "keygen" /\ cli.exit = "success"
\* The id printed in the header of the i-th participant, and the share
\* printed under it.
PrintedId(i) == cli.stdout[4 * (i - 1) + 1].index
PrintedShare(i) == hex_to_scalar(cli.stdout[4 * (i - 1) + 2].text)

\* C28: the id that the keygen command prints for a participant is that
\* participant's id, the point at which the printed share was evaluated.
C28_PrintedIdIsParticipantId ==
    KeygenPrinted =>
        \A i \in 1 .. cli.args.num_shares :
            /\ PrintedId(i)
                   = KeygenOutput(cli.args.num_shares, cli.args.poly).participants[i].id
            /\ PrintedShare(i).ok
            /\ PrintedShare(i).val = PowerSum(cli.args.poly, PrintedId(i), 1)

\* C29: the results of aggregate_public_key, aggregate_nonce and
\* finalize_signature_lagrange depend on the pairs of id and value only, not
\* on their order: the list in another order, and for aggregate_nonce the id
\* list in another order, give the same result.
C29_OrderDoesNotMatter ==
    lag.step = "permuted" =>
        /\ lag.result.ok /\ lag.permuted_result.ok
        /\ lag.permuted_result = lag.result

\* Three pairs of different ids, not all of the same value, were put in
\* another order, and the result is not zero.
C29_Witness ==
    /\ lag.step = "permuted"
    /\ Len(lag.pairs) = 3
    /\ Cardinality({lag.pairs[j][1] : j \in 1 .. 3}) = 3
    /\ Cardinality({lag.pairs[j][2] : j \in 1 .. 3}) > 1
    /\ Permute(lag.pairs, lag.perm) # lag.pairs
    /\ lag.id_perm # lag.perm
    /\ lag.result.ok /\ lag.result.val # 0

====
